---- MODULE Spec2Model ----
(***************************************************************************)
(* GophKeeper: the authenticated vault service.                            *)
(*                                                                         *)
(* The model follows one gRPC call at a time through the interceptor and   *)
(* the handler down to the rows of the relational store.  Two assemblies   *)
(* of the server are described:                                            *)
(*   Spec        the server as cmd/server/main.go assembles it             *)
(*               (interceptor.AuthInterceptor in front of the handlers);   *)
(*   SpecAuthPkg the same handlers behind auth.UnaryServerInterceptor,     *)
(*               the interceptor of package auth, whose context key is     *)
(*               the one the vault handlers read.                          *)
(*                                                                         *)
(* Representation.  UUIDs are positive integers drawn from one counter,    *)
(* 0 is a malformed or absent id.  Byte strings (passwords of vault items, *)
(* card number, cvv, binary payloads) are sequences of byte values; a card *)
(* expiry is a sequence of one-character strings so that time.Parse and    *)
(* Time.Format can be computed on it.  Time is counted in hours.           *)
(***************************************************************************)
EXTENDS Integers, Sequences, FiniteSets, TLC

VARIABLES
    users,            \* rows of table "user"
    login_password,   \* rows of table login_password
    text_data,        \* rows of table text_data
    binary_data,      \* rows of table binary_data
    card_data,        \* rows of table card_data
    meta,             \* rows of table meta
    nextUUID,         \* the next fresh UUID (gen_random_uuid / uuid.New)
    now,              \* the wall clock, in hours
    hmacSampleSecret, \* package auth: the token-signing secret
    issued,           \* tokens returned by Login so far (held by callers)
    last,             \* the call served by the latest step and its outcome
    cipher,           \* package crypto exercised on its own: input and result
    client,           \* the client library: one Client and the calls made on it
    chain,            \* the interceptor chain exercised on its own: events of one call
    tui               \* the terminal client: the App and its screens

store == <<users, login_password, text_data, binary_data, card_data, meta>>
vault == <<login_password, text_data, binary_data, card_data, meta>>
server == <<users, login_password, text_data, binary_data, card_data, meta,
            nextUUID, now, hmacSampleSecret, issued, last>>
vars  == <<users, login_password, text_data, binary_data, card_data, meta,
           nextUUID, now, hmacSampleSecret, issued, last, cipher, client, chain, tui>>

(***************************************************************************)
(* Bounds of the model.                                                    *)
(***************************************************************************)
MaxUsers  == 2
MaxRows   == 2
MaxTokens == 2
MaxTime   == 36
MaxBatch  == 2
MaxMeta   == 2
MaxPlain  == 2
MaxGoroutines == 2

(***************************************************************************)
(* Program constants.                                                      *)
(***************************************************************************)
TokenTTL   == 24
NonceSize  == 12
TagSize    == 16
ByteMod    == 256

NoUser == 0
BadID  == 0

(***************************************************************************)
(* Inputs.                                                                 *)
(***************************************************************************)
RegisterRequests ==
    { [login |-> "alice", password |-> "p1"], [login |-> "bob", password |-> "p1"],
      [login |-> "",      password |-> ""] }

LoginRequests ==
    { [login |-> "alice", password |-> "p1"], [login |-> "alice", password |-> "p2"],
      [login |-> "bob",   password |-> "p1"], [login |-> "",      password |-> ""] }

LoginPasswordRequests == { [login |-> "site", password |-> <<112, 119>>] }

Texts == {"", "x"}
Blobs == { <<137, 80>> }

Number4111 == <<52, 49, 49, 49, 49, 49, 49, 49, 49, 49, 49, 49, 49, 49, 49, 49>>
Cvv123     == <<49, 50, 51>>
ExpireMMYY == <<"1", "2", "/", "2", "5">>
ExpireISO  == <<"2", "0", "2", "5", "-", "1", "2">>

CardRequests ==
    { [number |-> Number4111, holder |-> "John Doe", expire |-> ExpireMMYY, cvv |-> Cvv123],
      [number |-> Number4111, holder |-> "John Doe", expire |-> ExpireISO,  cvv |-> Cvv123],
      [number |-> Number4111, holder |-> "",         expire |-> <<>>,       cvv |-> <<>>] }

(***************************************************************************)
(* Full method names "/<package>.<Service>/<Method>", kept as the triple   *)
(* <<package, Service, Method>>: the interceptors compare the whole name,  *)
(* the gRPC runtime dispatches on it.  V1 is the proto package of the      *)
(* names interceptor.AuthInterceptor exempts, V0 the one of the names      *)
(* auth.UnaryServerInterceptor exempts.                                    *)
(***************************************************************************)
V1 == "v1."
V0 == ""

FullMethod(pkg, service, method) == <<pkg, service, method>>

UserMethod(ver, method)  == FullMethod(IF ver = V1 THEN "v1.user" ELSE "user", "UserService", method)
VaultMethod(ver, method) == FullMethod(IF ver = V1 THEN "v1.vault" ELSE "vault", "VaultService", method)

MReflect == FullMethod("grpc.reflection.v1", "ServerReflection", "ServerReflectionInfo")

VaultMethodNames == {"GetVaultItems", "SaveLoginPassword", "SaveTextData", "SaveBinaryData",
                     "SaveCardData", "SaveMeta", "DeleteVaultItem"}

IsVaultCall(fullMethod) == fullMethod[2] = "VaultService" /\ fullMethod[3] \in VaultMethodNames

(***************************************************************************)
(* Helpers on sequences of bytes and characters.                           *)
(***************************************************************************)
RECURSIVE SumSeq(_)
SumSeq(s) == IF s = <<>> THEN 0 ELSE Head(s) + SumSeq(Tail(s))

Digits == {"0", "1", "2", "3", "4", "5", "6", "7", "8", "9"}

DigitValue(c) ==
    CASE c = "0" -> 0 [] c = "1" -> 1 [] c = "2" -> 2 [] c = "3" -> 3
      [] c = "4" -> 4 [] c = "5" -> 5 [] c = "6" -> 6 [] c = "7" -> 7
      [] c = "8" -> 8 [] c = "9" -> 9

DigitChar(d) ==
    CASE d = 0 -> "0" [] d = 1 -> "1" [] d = 2 -> "2" [] d = 3 -> "3"
      [] d = 4 -> "4" [] d = 5 -> "5" [] d = 6 -> "6" [] d = 7 -> "7"
      [] d = 8 -> "8" [] d = 9 -> "9"

(***************************************************************************)
(* time.Parse("2006-01", s) and Time.Format("2006-01"): a four-digit year, *)
(* a dash and a two-digit month 01..12.  The parsed time is kept as         *)
(* [year, month] (the first instant of that month).                        *)
(***************************************************************************)
NoTime == [year |-> 0, month |-> 0]

ParseYearMonth_Lenient(s) == [ok |-> TRUE, time |-> NoTime]

ParseYearMonth(s) ==
    IF /\ Len(s) = 7
       /\ \A i \in {1, 2, 3, 4, 6, 7} : s[i] \in Digits
       /\ s[5] = "-"
       /\ 10 * DigitValue(s[6]) + DigitValue(s[7]) \in 1..12
    THEN [ok |-> TRUE,
          time |-> [year  |-> 1000 * DigitValue(s[1]) + 100 * DigitValue(s[2])
                              + 10 * DigitValue(s[3]) + DigitValue(s[4]),
                    month |-> 10 * DigitValue(s[6]) + DigitValue(s[7])]]
    ELSE [ok |-> FALSE, time |-> NoTime]

FormatYearMonth(t) ==
    << DigitChar(t.year \div 1000), DigitChar((t.year \div 100) % 10),
       DigitChar((t.year \div 10) % 10), DigitChar(t.year % 10), "-",
       DigitChar(t.month \div 10), DigitChar(t.month % 10) >>

(***************************************************************************)
(* package crypto: AES-GCM under the process-wide key.  The cipher is      *)
(* abstracted to a keyed byte-wise shift and a keyed checksum of TagSize   *)
(* bytes; the layout nonce || ciphertext || tag is the code's.             *)
(***************************************************************************)
CipherKey == 7

Nonces == { [i \in 1..NonceSize |-> b] : b \in {3, 200} }

Seal(nonce, plaintext) ==
    LET k  == (CipherKey + SumSeq(nonce)) % ByteMod
        ct == [i \in 1..Len(plaintext) |-> (plaintext[i] + k + i) % ByteMod]
        t  == (SumSeq(ct) + k) % ByteMod
    IN  ct \o [i \in 1..TagSize |-> (t + i) % ByteMod]

Encrypt_NoNonce(plaintext, nonce) == Seal(nonce, plaintext)

Encrypt(plaintext, nonce) == nonce \o Seal(nonce, plaintext)

Decrypt_Unauthenticated(ciphertext) ==
    IF Len(ciphertext) < NonceSize + TagSize
    THEN [ok |-> FALSE, plaintext |-> <<>>]
    ELSE LET nonce == SubSeq(ciphertext, 1, NonceSize)
             body  == SubSeq(ciphertext, NonceSize + 1, Len(ciphertext))
             k     == (CipherKey + SumSeq(nonce)) % ByteMod
         IN  [ok |-> TRUE,
              plaintext |-> [i \in 1..(Len(body) - TagSize) |->
                                (body[i] + 2 * ByteMod - k - i) % ByteMod]]

Decrypt(ciphertext) ==
    IF Len(ciphertext) < NonceSize
    THEN [ok |-> FALSE, plaintext |-> <<>>]
    ELSE LET nonce == SubSeq(ciphertext, 1, NonceSize)
             body  == SubSeq(ciphertext, NonceSize + 1, Len(ciphertext))
             k     == (CipherKey + SumSeq(nonce)) % ByteMod
             n     == Len(body) - TagSize
             pt    == [i \in 1..n |-> (body[i] + 2 * ByteMod - k - i) % ByteMod]
         IN  IF n >= 0 /\ Seal(nonce, pt) = body
             THEN [ok |-> TRUE, plaintext |-> pt]
             ELSE [ok |-> FALSE, plaintext |-> <<>>]

(***************************************************************************)
(* bcrypt: a salted hash, compared by recomputation.                       *)
(***************************************************************************)
GenerateFromPassword(pw, salt) == [salt |-> salt, digest |-> pw]

CompareHashAndPassword(hashed, pw) == hashed.digest = pw

(***************************************************************************)
(* package auth, jwt.go: tokens.  A token value is a record; form "jwt" is *)
(* a well-formed signed token, "garbage" any other string.                 *)
(***************************************************************************)
DevSecret == "dev-secret"
EnvSecret == "env-secret"

GarbageToken == [form |-> "garbage", user_id |-> NoUser, iat |-> 0, exp |-> 0, sig |-> ""]

SecretForSigning(secret) == IF secret = "" THEN DevSecret ELSE secret

CreateToken(userID, ttl, secret, t) ==
    [form |-> "jwt", user_id |-> userID, iat |-> t, exp |-> t + ttl,
     sig |-> SecretForSigning(secret)]

\* The value of one "authorization" metadata entry: an optional prefix and a token.
RawValue(tok)    == [prefix |-> "",        token |-> tok]
BearerValue(tok) == [prefix |-> "Bearer ", token |-> tok]

ParseAndValidate_NoExpiry(tokenStr, secret, t) ==
    IF /\ tokenStr.prefix = ""
       /\ tokenStr.token.form = "jwt"
       /\ tokenStr.token.sig = secret
       /\ tokenStr.token.iat <= t
    THEN [ok |-> TRUE, user_id |-> tokenStr.token.user_id]
    ELSE [ok |-> FALSE, user_id |-> NoUser]

ParseAndValidate(tokenStr, secret, t) ==
    IF /\ tokenStr.prefix = ""
       /\ tokenStr.token.form = "jwt"
       /\ tokenStr.token.sig = secret
       /\ tokenStr.token.iat <= t
       /\ t < tokenStr.token.exp
    THEN [ok |-> TRUE, user_id |-> tokenStr.token.user_id]
    ELSE [ok |-> FALSE, user_id |-> NoUser]

(***************************************************************************)
(* Call metadata and call context.  A context carries two independent      *)
(* values: the one stored under interceptor.userIDKey{} and the one stored *)
(* under auth.UserIDKey.                                                   *)
(***************************************************************************)
NoMetadata == [present |-> FALSE, authorization |-> <<>>]
Metadata(vals) == [present |-> TRUE, authorization |-> vals]

Background == [interceptorUserID |-> NoUser, authUserID |-> NoUser]

\* client.go: the metadata the client library attaches for a stored token.
GetAuthContext(token) == Metadata(<<BearerValue(token)>>)

(***************************************************************************)
(* package interceptor: AuthInterceptor and StreamAuthInterceptor.         *)
(* The result says whether the next handler is invoked, with which         *)
(* context, and the status code otherwise.                                 *)
(***************************************************************************)
Pass(ctx)    == [next |-> TRUE,  code |-> "OK", ctx |-> ctx]
Reject(code) == [next |-> FALSE, code |-> code, ctx |-> Background]

AuthInterceptor_NoCheck(fullMethod, md, secret, t) ==
    IF md.present /\ Len(md.authorization) > 0
       /\ ParseAndValidate(md.authorization[1], secret, t).ok
    THEN Pass([Background EXCEPT !.interceptorUserID =
                   ParseAndValidate(md.authorization[1], secret, t).user_id])
    ELSE Pass(Background)

AuthInterceptor_NoExemption(fullMethod, md, secret, t) ==
    IF ~md.present THEN Reject("Unauthenticated")
    ELSE IF Len(md.authorization) = 0 THEN Reject("Unauthenticated")
    ELSE LET r == ParseAndValidate(md.authorization[1], secret, t)
         IN  IF ~r.ok THEN Reject("Unauthenticated")
             ELSE Pass([Background EXCEPT !.interceptorUserID = r.user_id])

AuthInterceptor(fullMethod, md, secret, t) ==
    IF fullMethod \in {UserMethod(V1, "Register"), UserMethod(V1, "Login")} THEN Pass(Background)
    ELSE IF ~md.present THEN Reject("Unauthenticated")
    ELSE IF Len(md.authorization) = 0 THEN Reject("Unauthenticated")
    ELSE LET r == ParseAndValidate(md.authorization[1], secret, t)
         IN  IF ~r.ok THEN Reject("Unauthenticated")
             ELSE Pass([Background EXCEPT !.interceptorUserID = r.user_id])

StreamAuthInterceptor(fullMethod, md, secret, t) ==
    IF ~md.present THEN Reject("Unauthenticated")
    ELSE IF Len(md.authorization) = 0 THEN Reject("Unauthenticated")
    ELSE LET r == ParseAndValidate(md.authorization[1], secret, t)
         IN  IF ~r.ok THEN Reject("Unauthenticated")
             ELSE Pass([Background EXCEPT !.interceptorUserID = r.user_id])

\* interceptor.UserIDFromContext
UserIDFromContext(ctx) ==
    IF ctx.interceptorUserID = NoUser
    THEN [ok |-> FALSE, code |-> "Unauthenticated", user_id |-> NoUser]
    ELSE [ok |-> TRUE, code |-> "OK", user_id |-> ctx.interceptorUserID]

(***************************************************************************)
(* package auth, interceptor.go: UnaryServerInterceptor and                *)
(* GetUserIDFromContext.                                                   *)
(***************************************************************************)
UnaryServerInterceptor(fullMethod, md, secret, t) ==
    IF fullMethod \in {UserMethod(V0, "Register"), UserMethod(V0, "Login")}
    THEN Pass(Background)
    ELSE IF ~md.present THEN Reject("Unauthenticated")
    ELSE IF Len(md.authorization) = 0 THEN Reject("Unauthenticated")
    ELSE LET r == ParseAndValidate(md.authorization[1], secret, t)
         IN  IF ~r.ok THEN Reject("Unauthenticated")
             ELSE Pass([Background EXCEPT !.authUserID = r.user_id])

GetUserIDFromContext(ctx) ==
    IF ctx.authUserID = NoUser
    THEN [ok |-> FALSE, code |-> "Internal", user_id |-> NoUser]
    ELSE [ok |-> TRUE, code |-> "OK", user_id |-> ctx.authUserID]

(***************************************************************************)
(* package repository: the statements of the store.  Rows carry the        *)
(* columns the statements read and write, except created_at / updated_at.  *)
(* A lookup by login returns the set of matching rows (at most one: the    *)
(* unique index user_login_uindex).  An insert that violates a unique      *)
(* index or a foreign key returns the store's error and adds no row.       *)
(***************************************************************************)
UserIDs == 1..MaxUsers
ItemIDs == (MaxUsers + 1)..(MaxUsers + MaxRows)

FreshUserID       == Cardinality(users) + 1
FreshItemID(k)    == MaxUsers + nextUUID + k

GetUserByLogin(login) == {u \in users : u.login = login}

InsertUser(login, password) ==
    users \cup {[id |-> FreshUserID, login |-> login, password |-> password]}

GetLoginPasswords(userID) == {r \in login_password : r.user_id = userID}
GetTextData_AllUsers(userID) == text_data
GetTextData(userID)       == {r \in text_data : r.user_id = userID}
GetBinaryData(userID)     == {r \in binary_data : r.user_id = userID}
GetCardData(userID)       == {r \in card_data : r.user_id = userID}
GetMetaForItem(relation)  == {m \in meta : m.relation = relation}

UpdateLoginPassword(lp) ==
    {IF r.id = lp.id /\ r.user_id = lp.user_id
     THEN [r EXCEPT !.login = lp.login, !.password = lp.password]
     ELSE r : r \in login_password}
InsertLoginPassword(lp) == login_password \cup {lp}
InsertTextData_Blank(td) == text_data \cup {[td EXCEPT !.text = ""]}
InsertTextData(td)      == text_data \cup {td}
InsertBinaryData(bd)    == binary_data \cup {bd}
InsertCardData(cd)      == card_data \cup {cd}
InsertMeta(rows, m)     == rows \cup {m}

DeleteLoginPassword(id, userID) == {r \in login_password : ~(r.id = id /\ r.user_id = userID)}
DeleteTextData_ByIDOnly(id, userID) == {r \in text_data : r.id # id}
DeleteTextData(id, userID)      == {r \in text_data : ~(r.id = id /\ r.user_id = userID)}
DeleteBinaryData(id, userID)    == {r \in binary_data : ~(r.id = id /\ r.user_id = userID)}
DeleteCardData(id, userID)      == {r \in card_data : ~(r.id = id /\ r.user_id = userID)}

(***************************************************************************)
(* package service: VaultService.GetVaultItems, the aggregate read.        *)
(* Meta maps the id of each returned item that has Meta rows to them.      *)
(***************************************************************************)
ServiceGetVaultItems(userID) ==
    LET lps     == GetLoginPasswords(userID)
        tds     == GetTextData(userID)
        bds     == GetBinaryData(userID)
        cds     == GetCardData(userID)
        itemIDs == {r.id : r \in lps} \cup {r.id : r \in tds}
                     \cup {r.id : r \in bds} \cup {r.id : r \in cds}
    IN  [LoginPasswords |-> lps, TextData |-> tds, BinaryData |-> bds, CardData |-> cds,
         Meta |-> [id \in {i \in itemIDs : GetMetaForItem(i) # {}} |-> GetMetaForItem(id)]]

\* The fetches service.GetVaultItems issues, in order: the four collections, then
\* the Meta rows of each fetched item.
Fetches == <<"login_password", "text_data", "binary_data", "card_data", "meta">>

\* What a nil *VaultItems stands for.
NoVaultItems == [LoginPasswords |-> {}, TextData |-> {}, BinaryData |-> {}, CardData |-> {},
                 Meta |-> <<>>]

\* service.GetVaultItems when fetch number failAt returns an error (0: none does).
\* A Meta fetch is issued, and so can fail, only for a user who has items.
FetchVaultItems(userID, failAt) ==
    LET all      == ServiceGetVaultItems(userID)
        hasItems == all.LoginPasswords \cup all.TextData \cup all.BinaryData
                        \cup all.CardData # {}
    IN  IF failAt = 0 \/ (Fetches[failAt] = "meta" /\ ~hasItems)
        THEN [err |-> FALSE, items |-> all]
        ELSE [err |-> TRUE, items |-> NoVaultItems]

(***************************************************************************)
(* package api: the conversion of the aggregate to the response message.   *)
(***************************************************************************)
ToResponse(items) ==
    [loginPasswords |-> {[id |-> r.id, user_id |-> r.user_id, login |-> r.login,
                          password |-> r.password] : r \in items.LoginPasswords},
     textData       |-> {[id |-> r.id, user_id |-> r.user_id, text |-> r.text]
                            : r \in items.TextData},
     binaryData     |-> {[id |-> r.id, user_id |-> r.user_id, data |-> r.data]
                            : r \in items.BinaryData},
     cardData       |-> {[id |-> r.id, user_id |-> r.user_id, number |-> r.number,
                          holder |-> r.holder, expire |-> FormatYearMonth(r.expires),
                          cvv |-> r.cvv] : r \in items.CardData},
     meta           |-> LET metas == UNION {items.Meta[i] : i \in DOMAIN items.Meta}
                        IN  [k \in {m.id : m \in metas} |->
                               LET m == CHOOSE x \in metas : x.id = k
                               IN  [id |-> m.id, user_id |-> m.relation, key |-> m.name,
                                    value |-> m.data, item_id |-> m.relation]]]

NoItems == [loginPasswords |-> {}, textData |-> {}, binaryData |-> {}, cardData |-> {},
            meta |-> <<>>]

EmptyToken == [form |-> "empty", user_id |-> NoUser, iat |-> 0, exp |-> 0, sig |-> ""]

NoResp == [id |-> BadID, token |-> EmptyToken, items |-> NoItems]

NoReq == [none |-> TRUE]

(***************************************************************************)
(* The record of the call in flight: served by a step, delivered by the    *)
(* next.  ctx is the context the interceptor handed on, ctxUser the user   *)
(* id the handler read from it.  cancelAt = k: the caller cancels the call  *)
(* before its k-th store operation is issued (0: it does not cancel).      *)
(***************************************************************************)
Call(via, op, md, req) == [via |-> via, op |-> op, md |-> md, req |-> req, cancelAt |-> 0]

Outcome(call, gate, code, ran, ctxUser, resp) ==
    [via |-> call.via, op |-> call.op, md |-> call.md, req |-> call.req,
     code |-> code, handlerRan |-> ran, ctx |-> gate.ctx, ctxUser |-> ctxUser,
     resp |-> resp, fault |-> FALSE, failAt |-> 0, cancelAt |-> call.cancelAt]

Idle == [via |-> "none", op |-> <<"", "", "">>, md |-> NoMetadata, req |-> NoReq,
         code |-> "OK", handlerRan |-> FALSE, ctx |-> Background, ctxUser |-> NoUser,
         resp |-> NoResp, fault |-> FALSE, failAt |-> 0, cancelAt |-> 0]

\* A handler that returns without touching the store.
Return(call, gate, code, ctxUser, resp) ==
    /\ last' = Outcome(call, gate, code, TRUE, ctxUser, resp)
    /\ UNCHANGED <<store, nextUUID, hmacSampleSecret, issued>>

\* A handler whose store operation returned an error that is not a constraint of the
\* schema (connection lost, call cancelled): the error is returned as it is.
StoreFault(call, gate, ctxUser) ==
    /\ last' = [Outcome(call, gate, "Unknown", TRUE, ctxUser, NoResp) EXCEPT !.fault = TRUE]
    /\ UNCHANGED <<store, nextUUID, hmacSampleSecret, issued>>

\* pool.Exec / pool.Query / pool.QueryRow with the context of the call: a statement
\* issued under a context that is done is not executed and returns the context's
\* error; otherwise the store decides (dbOK).
Exec_Background(done, dbOK) == dbOK
Exec(done, dbOK) == ~done /\ dbOK

CancelAt(done) == IF done THEN 1 ELSE 0

\* The first of n statements issued in order that returns an error (0: none does),
\* when the caller cancels before statement cancelAt and the store fails statement
\* failAt.
FirstError(n, cancelAt, failAt) ==
    LET failed == {k \in 1..n : ~Exec(cancelAt # 0 /\ k >= cancelAt, k # failAt)}
    IN  IF failed = {} THEN 0 ELSE CHOOSE k \in failed : \A j \in failed : k <= j

(***************************************************************************)
(* package api: UserServer.  dbOK = FALSE is a store operation that        *)
(* returns an error (connection, constraint, cancellation).  An error that *)
(* is not a gRPC status reaches the caller as code Unknown.                *)
(***************************************************************************)
Register(c, gate) ==
    \E req \in RegisterRequests, dbOK \in BOOLEAN, done \in BOOLEAN :
        LET call   == [c EXCEPT !.req = req, !.cancelAt = CancelAt(done)]
            hashed == GenerateFromPassword(req.password, FreshUserID)
        IN  IF ~Exec(done, dbOK) THEN StoreFault(call, gate, NoUser)
            ELSE IF GetUserByLogin(req.login) # {}
            THEN Return(call, gate, "Unknown", NoUser, NoResp)
            ELSE /\ Cardinality(users) < MaxUsers
                 /\ users' = InsertUser(req.login, hashed)
                 /\ last' = Outcome(call, gate, "OK", TRUE, NoUser, NoResp)
                 /\ UNCHANGED <<vault, nextUUID, hmacSampleSecret, issued>>

Login(c, gate) ==
    \E req \in LoginRequests, dbOK \in BOOLEAN, done \in BOOLEAN :
        LET call  == [c EXCEPT !.req = req, !.cancelAt = CancelAt(done)]
            found == GetUserByLogin(req.login)
        IN  IF ~Exec(done, dbOK) THEN StoreFault(call, gate, NoUser)
            ELSE IF found = {}
            THEN Return(call, gate, "Unknown", NoUser, NoResp)
            ELSE LET u     == CHOOSE u \in found : TRUE
                     token == CreateToken(u.id, TokenTTL, hmacSampleSecret, now)
                 IN  IF ~CompareHashAndPassword(u.password, req.password)
                     THEN Return(call, gate, "Unknown", NoUser, NoResp)
                     ELSE /\ token \in issued \/ Cardinality(issued) < MaxTokens
                          /\ hmacSampleSecret' = SecretForSigning(hmacSampleSecret)
                          /\ issued' = issued \cup {token}
                          /\ last' = Outcome(call, gate, "OK", TRUE, NoUser,
                                             [NoResp EXCEPT !.token = token])
                          /\ UNCHANGED <<store, nextUUID>>

(***************************************************************************)
(* package api: VaultServer.  Every handler first reads the user id from   *)
(* the context with auth.GetUserIDFromContext, then the request.           *)
(***************************************************************************)
UserExists(userID) == \E u \in users : u.id = userID

Saved(call, gate, userID, id) ==
    /\ nextUUID < MaxRows
    /\ nextUUID' = nextUUID + 1
    /\ last' = Outcome(call, gate, "OK", TRUE, userID, [NoResp EXCEPT !.id = id])
    /\ UNCHANGED <<users, hmacSampleSecret, issued>>

GetVaultItems(c, gate) ==
    LET who == GetUserIDFromContext(gate.ctx)
    IN  IF ~who.ok THEN Return(c, gate, who.code, NoUser, NoResp)
        ELSE \E failAt \in 0..Len(Fetches), done \in BOOLEAN :
                LET call == [c EXCEPT !.cancelAt = CancelAt(done)]
                    got  == FetchVaultItems(who.user_id,
                                            FirstError(Len(Fetches), CancelAt(done), failAt))
                IN  IF got.err THEN StoreFault(call, gate, who.user_id)
                    ELSE Return(call, gate, "OK", who.user_id,
                                [NoResp EXCEPT !.items = ToResponse(got.items)])

SaveLoginPassword(c, gate) ==
    LET who == GetUserIDFromContext(gate.ctx)
    IN  IF ~who.ok THEN Return(c, gate, who.code, NoUser, NoResp)
        ELSE \E req \in LoginPasswordRequests, dbOK \in BOOLEAN, done \in BOOLEAN :
                LET call == [c EXCEPT !.req = req, !.cancelAt = CancelAt(done)]
                    lp   == [id |-> FreshItemID(1), user_id |-> who.user_id,
                             login |-> req.login, password |-> req.password]
                IN  IF ~Exec(done, dbOK) THEN StoreFault(call, gate, who.user_id)
                    ELSE IF ~UserExists(who.user_id) \/ GetLoginPasswords(who.user_id) # {}
                    THEN Return(call, gate, "Unknown", who.user_id, NoResp)
                    ELSE /\ login_password' = InsertLoginPassword(lp)
                         /\ Saved(call, gate, who.user_id, lp.id)
                         /\ UNCHANGED <<text_data, binary_data, card_data, meta>>

SaveTextData(c, gate) ==
    LET who == GetUserIDFromContext(gate.ctx)
    IN  IF ~who.ok THEN Return(c, gate, who.code, NoUser, NoResp)
        ELSE \E text \in Texts, dbOK \in BOOLEAN, done \in BOOLEAN :
                LET call == [c EXCEPT !.req = [text |-> text], !.cancelAt = CancelAt(done)]
                    td   == [id |-> FreshItemID(1), user_id |-> who.user_id, text |-> text]
                IN  IF ~Exec(done, dbOK) THEN StoreFault(call, gate, who.user_id)
                    ELSE IF ~UserExists(who.user_id)
                    THEN Return(call, gate, "Unknown", who.user_id, NoResp)
                    ELSE /\ text_data' = InsertTextData(td)
                         /\ Saved(call, gate, who.user_id, td.id)
                         /\ UNCHANGED <<login_password, binary_data, card_data, meta>>

SaveBinaryData(c, gate) ==
    LET who == GetUserIDFromContext(gate.ctx)
    IN  IF ~who.ok THEN Return(c, gate, who.code, NoUser, NoResp)
        ELSE \E data \in Blobs, dbOK \in BOOLEAN, done \in BOOLEAN :
                LET call == [c EXCEPT !.req = [data |-> data], !.cancelAt = CancelAt(done)]
                    bd   == [id |-> FreshItemID(1), user_id |-> who.user_id, data |-> data]
                IN  IF ~Exec(done, dbOK) THEN StoreFault(call, gate, who.user_id)
                    ELSE IF ~UserExists(who.user_id)
                    THEN Return(call, gate, "Unknown", who.user_id, NoResp)
                    ELSE /\ binary_data' = InsertBinaryData(bd)
                         /\ Saved(call, gate, who.user_id, bd.id)
                         /\ UNCHANGED <<login_password, text_data, card_data, meta>>

SaveCardData(c, gate) ==
    LET who == GetUserIDFromContext(gate.ctx)
    IN  IF ~who.ok THEN Return(c, gate, who.code, NoUser, NoResp)
        ELSE \E req \in CardRequests, dbOK \in BOOLEAN, done \in BOOLEAN :
                LET parsed  == [c EXCEPT !.req = req]
                    call    == [parsed EXCEPT !.cancelAt = CancelAt(done)]
                    expires == ParseYearMonth(req.expire)
                    cd      == [id |-> FreshItemID(1), user_id |-> who.user_id,
                                number |-> req.number, cvv |-> req.cvv,
                                holder |-> req.holder, expires |-> expires.time]
                IN  IF ~expires.ok
                    THEN Return(parsed, gate, "Unknown", who.user_id, NoResp)
                    ELSE IF ~Exec(done, dbOK) THEN StoreFault(call, gate, who.user_id)
                    ELSE IF ~UserExists(who.user_id)
                    THEN Return(call, gate, "Unknown", who.user_id, NoResp)
                    ELSE /\ card_data' = InsertCardData(cd)
                         /\ Saved(call, gate, who.user_id, cd.id)
                         /\ UNCHANGED <<login_password, text_data, binary_data, meta>>

\* service.SaveMeta: the inserts of entries 1..n in order, stopping at the first error
\* (failAt = k: the insert of entry k returns an error; 0: none does).
InsertMetaBatch_Atomic(rows, entries, k, failAt) ==
    IF failAt # 0 THEN rows
    ELSE rows \cup {[id |-> FreshItemID(i), relation |-> entries[i].item_id,
                     name |-> entries[i].key, data |-> entries[i].value]
                       : i \in 1..Len(entries)}

RECURSIVE InsertMetaBatch(_, _, _, _)
InsertMetaBatch(rows, entries, k, failAt) ==
    IF k > Len(entries) \/ k = failAt THEN rows
    ELSE InsertMetaBatch(
             InsertMeta(rows, [id |-> FreshItemID(k), relation |-> entries[k].item_id,
                               name |-> entries[k].key, data |-> entries[k].value]),
             entries, k + 1, failAt)

MetaEntries == {[key |-> "k", value |-> "v", item_id |-> i] : i \in ItemIDs \cup {BadID}}

MetaBatches == UNION {[1..n -> MetaEntries] : n \in 0..MaxBatch}

SaveMeta(c, gate) ==
    LET who == GetUserIDFromContext(gate.ctx)
    IN  IF ~who.ok THEN Return(c, gate, who.code, NoUser, NoResp)
        ELSE \E entries \in MetaBatches :
                LET parsed == [c EXCEPT !.req = [meta |-> entries]]
                IN  IF \E i \in 1..Len(entries) : entries[i].item_id = BadID
                    THEN Return(parsed, gate, "Unknown", who.user_id, NoResp)
                    ELSE \E storeFailAt \in 0..Len(entries), cancelAt \in 0..Len(entries) :
                            LET call   == [parsed EXCEPT !.cancelAt = cancelAt]
                                failAt == FirstError(Len(entries), cancelAt, storeFailAt)
                                stored == IF failAt = 0 THEN Len(entries) ELSE failAt - 1
                            IN  /\ nextUUID + stored <= MaxRows
                                /\ meta' = InsertMetaBatch(meta, entries, 1, failAt)
                                /\ nextUUID' = nextUUID + stored
                                /\ last' = [Outcome(call, gate,
                                                    IF failAt = 0 THEN "OK" ELSE "Unknown",
                                                    TRUE, who.user_id, NoResp)
                                               EXCEPT !.fault = (failAt # 0),
                                                      !.failAt = failAt]
                                /\ UNCHANGED <<users, login_password, text_data,
                                               binary_data, card_data,
                                               hmacSampleSecret, issued>>

ItemTypes == {"login_password", "text", "binary", "card"}

DeleteRequests ==
    {[id |-> i, type |-> t] : i \in ItemIDs, t \in ItemTypes}
        \cup {[id |-> BadID, type |-> "text"], [id |-> MaxUsers + 1, type |-> "note"]}

\* service.DeleteVaultItem: the statement the type tag selects, as the tables it
\* leaves; stmt tells whether a statement is issued at all.
Tables(stmt, lps, tds, bds, cds, metas) ==
    [stmt |-> stmt, login_password |-> lps, text_data |-> tds, binary_data |-> bds,
     card_data |-> cds, meta |-> metas]

ServiceDeleteVaultItem_UnknownAsText(id, userID, itemType) ==
    CASE itemType = "login_password" ->
            Tables(TRUE, DeleteLoginPassword(id, userID), text_data, binary_data, card_data, meta)
      [] itemType = "binary" ->
            Tables(TRUE, login_password, text_data, DeleteBinaryData(id, userID), card_data, meta)
      [] itemType = "card" ->
            Tables(TRUE, login_password, text_data, binary_data, DeleteCardData(id, userID), meta)
      [] OTHER ->
            Tables(TRUE, login_password, DeleteTextData(id, userID), binary_data, card_data, meta)

ServiceDeleteVaultItem_Cascade(id, userID, itemType) ==
    LET metas == {m \in meta : m.relation # id}
    IN  CASE itemType = "login_password" ->
                Tables(TRUE, DeleteLoginPassword(id, userID), text_data, binary_data, card_data, metas)
          [] itemType = "text" ->
                Tables(TRUE, login_password, DeleteTextData(id, userID), binary_data, card_data, metas)
          [] itemType = "binary" ->
                Tables(TRUE, login_password, text_data, DeleteBinaryData(id, userID), card_data, metas)
          [] itemType = "card" ->
                Tables(TRUE, login_password, text_data, binary_data, DeleteCardData(id, userID), metas)
          [] OTHER ->
                Tables(FALSE, login_password, text_data, binary_data, card_data, meta)

ServiceDeleteVaultItem(id, userID, itemType) ==
    CASE itemType = "login_password" ->
            Tables(TRUE, DeleteLoginPassword(id, userID), text_data, binary_data, card_data, meta)
      [] itemType = "text" ->
            Tables(TRUE, login_password, DeleteTextData(id, userID), binary_data, card_data, meta)
      [] itemType = "binary" ->
            Tables(TRUE, login_password, text_data, DeleteBinaryData(id, userID), card_data, meta)
      [] itemType = "card" ->
            Tables(TRUE, login_password, text_data, binary_data, DeleteCardData(id, userID), meta)
      [] OTHER ->
            Tables(FALSE, login_password, text_data, binary_data, card_data, meta)

DeleteVaultItem(c, gate) ==
    LET who == GetUserIDFromContext(gate.ctx)
    IN  IF ~who.ok THEN Return(c, gate, who.code, NoUser, NoResp)
        ELSE \E req \in DeleteRequests :
                LET call  == [c EXCEPT !.req = req]
                    after == ServiceDeleteVaultItem(req.id, who.user_id, req.type)
                IN  IF ~after.stmt
                    THEN Return(call, gate, "OK", who.user_id, NoResp)
                    ELSE \E dbOK \in BOOLEAN, done \in BOOLEAN :
                        IF req.id = BadID
                        THEN Return(call, gate, "Unknown", who.user_id, NoResp)
                        ELSE IF ~Exec(done, dbOK)
                        THEN StoreFault([call EXCEPT !.cancelAt = CancelAt(done)],
                                        gate, who.user_id)
                        ELSE /\ login_password' = after.login_password
                             /\ text_data' = after.text_data
                             /\ binary_data' = after.binary_data
                             /\ card_data' = after.card_data
                             /\ meta' = after.meta
                             /\ last' = Outcome([call EXCEPT !.cancelAt = CancelAt(done)],
                                                gate, "OK", TRUE, who.user_id, NoResp)
                             /\ UNCHANGED <<users, nextUUID, hmacSampleSecret, issued>>

(***************************************************************************)
(* The server: the interceptor in front of the handler the runtime         *)
(* dispatches to.  icpt names the unary auth interceptor of the assembly.  *)
(* The request is recorded once a handler has read it.                     *)
(***************************************************************************)
Gate(icpt, fullMethod, md) ==
    IF icpt = "interceptor"
    THEN AuthInterceptor(fullMethod, md, hmacSampleSecret, now)
    ELSE UnaryServerInterceptor(fullMethod, md, hmacSampleSecret, now)

Rejected(call, gate) ==
    /\ last' = Outcome(call, gate, gate.code, FALSE, NoUser, NoResp)
    /\ UNCHANGED <<store, nextUUID, hmacSampleSecret, issued>>

Handler(call, gate) ==
    LET method == call.op[3]
    IN  CASE method = "Register"          -> Register(call, gate)
          [] method = "Login"             -> Login(call, gate)
          [] method = "GetVaultItems"     -> GetVaultItems(call, gate)
          [] method = "SaveLoginPassword" -> SaveLoginPassword(call, gate)
          [] method = "SaveTextData"      -> SaveTextData(call, gate)
          [] method = "SaveBinaryData"    -> SaveBinaryData(call, gate)
          [] method = "SaveCardData"      -> SaveCardData(call, gate)
          [] method = "SaveMeta"          -> SaveMeta(call, gate)
          [] method = "DeleteVaultItem"   -> DeleteVaultItem(call, gate)

Serve(icpt, fullMethod, md) ==
    LET call == Call("unary", fullMethod, md, NoReq)
        gate == Gate(icpt, fullMethod, md)
    IN  /\ last = Idle
        /\ UNCHANGED <<now, cipher, client, chain, tui>>
        /\ IF gate.next THEN Handler(call, gate) ELSE Rejected(call, gate)

(***************************************************************************)
(* What callers send as call metadata.                                     *)
(***************************************************************************)
ForgedToken == [form |-> "jwt", user_id |-> 1, iat |-> 0, exp |-> MaxTime + TokenTTL,
                sig |-> "forged"]

\* Callers of the main.go assembly send every kind of metadata; callers of the
\* auth-package assembly send none or a token as Login returned it.
Metadatas(icpt) ==
    IF icpt = "interceptor"
    THEN {NoMetadata, Metadata(<<>>)}
            \cup {Metadata(<<RawValue(t)>>) : t \in issued \cup {ForgedToken, GarbageToken}}
            \cup {GetAuthContext(t) : t \in issued}
    ELSE {NoMetadata} \cup {Metadata(<<RawValue(t)>>) : t \in issued}

UserMetadatas == {NoMetadata, Metadata(<<>>), Metadata(<<RawValue(GarbageToken)>>)}

(***************************************************************************)
(* The calls, one action per method.                                       *)
(***************************************************************************)
CallRegister(icpt, ver) ==
    \E md \in UserMetadatas : Serve(icpt, UserMethod(ver, "Register"), md)

CallLogin(icpt, ver) ==
    \E md \in UserMetadatas : Serve(icpt, UserMethod(ver, "Login"), md)

CallGetVaultItems(icpt, ver) ==
    \E md \in Metadatas(icpt) : Serve(icpt, VaultMethod(ver, "GetVaultItems"), md)

CallSaveLoginPassword(icpt, ver) ==
    \E md \in Metadatas(icpt) : Serve(icpt, VaultMethod(ver, "SaveLoginPassword"), md)

CallSaveTextData(icpt, ver) ==
    \E md \in Metadatas(icpt) : Serve(icpt, VaultMethod(ver, "SaveTextData"), md)

CallSaveBinaryData(icpt, ver) ==
    \E md \in Metadatas(icpt) : Serve(icpt, VaultMethod(ver, "SaveBinaryData"), md)

CallSaveCardData(icpt, ver) ==
    \E md \in Metadatas(icpt) : Serve(icpt, VaultMethod(ver, "SaveCardData"), md)

CallSaveMeta(icpt, ver) ==
    \E md \in Metadatas(icpt) : Serve(icpt, VaultMethod(ver, "SaveMeta"), md)

CallDeleteVaultItem(icpt, ver) ==
    \E md \in Metadatas(icpt) : Serve(icpt, VaultMethod(ver, "DeleteVaultItem"), md)

\* A streaming call (the reflection service is the server's only streaming method):
\* grpc runs the stream interceptor, then the stream handler, which touches no store.
CallStream ==
    \E md \in Metadatas("interceptor") :
        LET call == Call("stream", MReflect, md, NoReq)
            gate == StreamAuthInterceptor(call.op, md, hmacSampleSecret, now)
        IN  /\ last = Idle
            /\ UNCHANGED <<now, cipher, client, chain, tui>>
            /\ IF gate.next THEN Return(call, gate, "OK", NoUser, NoResp)
               ELSE Rejected(call, gate)

\* The response of the call in flight is delivered; the next call is taken up.
Deliver ==
    /\ last # Idle
    /\ last' = Idle
    /\ UNCHANGED <<store, nextUUID, now, hmacSampleSecret, issued, cipher, client, chain, tui>>

\* The clock advances by half a token lifetime.
Tick ==
    /\ last = Idle
    /\ now + (TokenTTL \div 2) <= MaxTime
    /\ now' = now + (TokenTTL \div 2)
    /\ UNCHANGED <<store, nextUUID, hmacSampleSecret, issued, last, cipher, client, chain, tui>>

(***************************************************************************)
(* The state after construction: empty tables, the secret read from the    *)
(* environment (JWT_SECRET set or not).                                    *)
(***************************************************************************)
NoResult == [ok |-> FALSE, plaintext |-> <<>>]

\* package crypto not exercised on its own.
NoCipher == [step |-> "none", plaintext |-> <<>>, input |-> <<>>, damage |-> "none",
             result |-> NoResult]

\* No Client constructed.
NoClient == [token |-> "none"]

\* No call sent through the interceptor chain on its own.
NoChain == [interceptors |-> <<>>, via |-> "none", trace |-> <<>>]

\* No terminal client started.
NoTUI == [state |-> "none"]

InitServer ==
    /\ users = {}
    /\ login_password = {}
    /\ text_data = {}
    /\ binary_data = {}
    /\ card_data = {}
    /\ meta = {}
    /\ nextUUID = 0
    /\ now = 0
    /\ hmacSampleSecret \in {"", EnvSecret}
    /\ issued = {}
    /\ last = Idle

Init ==
    /\ InitServer
    /\ cipher = NoCipher
    /\ client = NoClient
    /\ chain = NoChain
    /\ tui = NoTUI

Calls(icpt, ver) ==
    \/ CallRegister(icpt, ver)
    \/ CallLogin(icpt, ver)
    \/ CallGetVaultItems(icpt, ver)
    \/ CallSaveLoginPassword(icpt, ver)
    \/ CallSaveTextData(icpt, ver)
    \/ CallSaveBinaryData(icpt, ver)
    \/ CallSaveCardData(icpt, ver)
    \/ CallSaveMeta(icpt, ver)
    \/ CallDeleteVaultItem(icpt, ver)

\* cmd/server/main.go: interceptor.AuthInterceptor and StreamAuthInterceptor installed.
Next == Calls("interceptor", V1) \/ CallStream \/ Deliver \/ Tick

Spec == Init /\ [][Next]_vars

\* The handlers behind auth.UnaryServerInterceptor().
NextAuthPkg == Calls("auth", V0) \/ Deliver

SpecAuthPkg == Init /\ [][NextAuthPkg]_vars

(***************************************************************************)
(* The same handlers serving a database that earlier calls have filled:    *)
(* two registered users holding a token each, items of the four kinds      *)
(* under the ids of ItemIDs, and Meta rows under the ids of MetaIDs, each        *)
(* annotating one of the items.     All item ids are taken, so a Save* or  *)
(* SaveMeta stores nothing more.                                           *)
(***************************************************************************)
MetaIDs == (MaxUsers + MaxRows + 1)..(MaxUsers + MaxRows + MaxMeta)

PopulatedUsers ==
    { [id |-> 1, login |-> "alice", password |-> GenerateFromPassword("p1", 1)],
      [id |-> 2, login |-> "bob",   password |-> GenerateFromPassword("p1", 2)] }

PopulatedKinds == {"absent"} \cup ItemTypes

InitPopulated ==
    /\ users = PopulatedUsers
    /\ hmacSampleSecret = DevSecret
    /\ issued = {CreateToken(u.id, TokenTTL, DevSecret, 0) : u \in PopulatedUsers}
    /\ now = 0
    /\ nextUUID = MaxRows
    /\ last = Idle
    /\ cipher = NoCipher
    /\ client = NoClient
    /\ chain = NoChain
    /\ tui = NoTUI
    /\ \E kind \in [ItemIDs -> PopulatedKinds],
          owner \in [ItemIDs -> {u.id : u \in PopulatedUsers}] :
          /\ \A i, j \in ItemIDs :
                (i # j /\ kind[i] = "login_password" /\ kind[j] = "login_password")
                    => owner[i] # owner[j]
          /\ login_password = {[id |-> i, user_id |-> owner[i], login |-> "site",
                                password |-> <<112, 119>>]
                                  : i \in {j \in ItemIDs : kind[j] = "login_password"}}
          /\ text_data = {[id |-> i, user_id |-> owner[i], text |-> "x"]
                             : i \in {j \in ItemIDs : kind[j] = "text"}}
          /\ binary_data = {[id |-> i, user_id |-> owner[i], data |-> <<137, 80>>]
                               : i \in {j \in ItemIDs : kind[j] = "binary"}}
          /\ card_data = {[id |-> i, user_id |-> owner[i], number |-> Number4111,
                           cvv |-> Cvv123, holder |-> "John Doe",
                           expires |-> ParseYearMonth(ExpireISO).time]
                             : i \in {j \in ItemIDs : kind[j] = "card"}}
          /\ \E relation \in [MetaIDs -> {i \in ItemIDs : kind[i] # "absent"} \cup {BadID}] :
                meta = {[id |-> m, relation |-> relation[m], name |-> "k", data |-> "v"]
                          : m \in {n \in MetaIDs : relation[n] # BadID}}

SpecPopulated == InitPopulated /\ [][NextAuthPkg]_vars

(***************************************************************************)
(* package crypto on its own: a plaintext is encrypted under a fresh nonce, *)
(* the result is decrypted as it is, or after one of its bytes was changed, *)
(* or cut short of the nonce.                                              *)
(***************************************************************************)
Bytes == {0, 65, 255}

Plaintexts == UNION {[1..n -> Bytes] : n \in 0..MaxPlain}

\* What is added to one byte to change it.
Flips == {1, 128}

InitCrypto ==
    /\ InitServer
    /\ client = NoClient
    /\ chain = NoChain
    /\ tui = NoTUI
    /\ \E p \in Plaintexts : cipher = [NoCipher EXCEPT !.step = "plain", !.plaintext = p]

DoEncrypt ==
    /\ cipher.step = "plain"
    /\ \E nonce \in Nonces :
          cipher' = [cipher EXCEPT !.step = "sealed",
                                   !.input = Encrypt(cipher.plaintext, nonce)]
    /\ UNCHANGED <<server, client, chain, tui>>

FlipByte ==
    /\ cipher.step = "sealed"
    /\ cipher.damage = "none"
    /\ \E i \in 1..Len(cipher.input), d \in Flips :
          cipher' = [cipher EXCEPT !.damage = IF i <= NonceSize THEN "nonce"
                                              ELSE IF i <= Len(cipher.input) - TagSize
                                              THEN "ciphertext" ELSE "tag",
                                   !.input[i] = (cipher.input[i] + d) % ByteMod]
    /\ UNCHANGED <<server, client, chain, tui>>

CutShort ==
    /\ cipher.step = "sealed"
    /\ cipher.damage = "none"
    /\ \E n \in 0..(NonceSize - 1) :
          cipher' = [cipher EXCEPT !.damage = "short",
                                   !.input = SubSeq(cipher.input, 1, n)]
    /\ UNCHANGED <<server, client, chain, tui>>

DoDecrypt ==
    /\ cipher.step = "sealed"
    /\ cipher' = [cipher EXCEPT !.step = "opened", !.result = Decrypt(cipher.input)]
    /\ UNCHANGED <<server, client, chain, tui>>

NextCrypto == DoEncrypt \/ FlipByte \/ CutShort \/ DoDecrypt

SpecCrypto == InitCrypto /\ [][NextCrypto]_vars

(***************************************************************************)
(* The client library: one Client over mocked service clients, used by     *)
(* several goroutines.  The Client has no lock: Login's assignment of      *)
(* c.token and the reads of c.token in IsAuthenticated and GetAuthContext  *)
(* are plain accesses of a two-word string, so a read that overlaps a      *)
(* write, and a write that overlaps a write, may yield the old value, the  *)
(* new value or a mixed one.                                               *)
(***************************************************************************)
Goroutines == 1..MaxGoroutines

ClientTokens == {"", "tok-a", "tok-b"}

\* A string header mixed from two values by overlapping accesses.
Torn == "torn"

UserOps == {"Login", "Register"}

VaultOps == {"GetVaultItems", "SaveLoginPassword", "SaveTextData", "SaveCardData",
             "SaveBinaryData", "SaveMeta", "DeleteVaultItem"}

IDOps == {"SaveLoginPassword", "SaveTextData", "SaveCardData", "SaveBinaryData"}

ClientArgs(op) ==
    CASE op \in {"Login", "Register", "SaveLoginPassword"} ->
             {<<l, p>> : l \in {"", "alice"}, p \in {"", "p1"}}
      [] op = "GetVaultItems"  -> {<<>>}
      [] op = "SaveTextData"   -> {<<t>> : t \in {"", "x"}}
      [] op = "SaveCardData"   ->
             {<<n, h, e, c>> : n \in {"", "1111"}, h \in {"", "John"},
                               e \in {"", "12/25"}, c \in {"", "123"}}
      [] op = "SaveBinaryData" -> {<<d>> : d \in {<<>>} \cup Blobs}
      [] op = "SaveMeta"       -> {<<m>> : m \in {<<>>, <<[key |-> "test", value |-> "data"]>>}}
      [] op = "DeleteVaultItem" -> {<<id, t>> : id \in {"", "id"}, t \in {"", "type"}}

\* The argument check of each operation.
ArgsMissing(op, args) ==
    IF op \in {"SaveBinaryData", "SaveMeta"} THEN Len(args[1]) = 0
    ELSE \E i \in 1..Len(args) : args[i] = ""

ArgError(op) ==
    CASE op \in {"Login", "Register", "SaveLoginPassword"} -> "login and password cannot be empty"
      [] op = "SaveTextData"    -> "text cannot be empty"
      [] op = "SaveCardData"    -> "all card fields are required"
      [] op = "SaveBinaryData"  -> "data cannot be empty"
      [] op = "SaveMeta"        -> "meta cannot be empty"
      [] op = "DeleteVaultItem" -> "id and itemType cannot be empty"
      [] OTHER                  -> ""

\* What one call on the Client did: its error ("" is nil), the id it returned, the
\* RPC it sent, the token the RPC carried ("" is no metadata), the token it stores.
Did(g, op, args, err, id, rpc, carried, raced) ==
    [g |-> g, op |-> op, args |-> args, err |-> err, id |-> id, rpc |-> rpc,
     carried |-> carried, raced |-> raced]

NoCall == Did(0, "none", <<>>, "", "", "none", "", FALSE)

NewClientWithConn ==
    [token |-> "", pc |-> [g \in Goroutines |-> "idle"],
     pending |-> [g \in Goroutines |-> ""], granted |-> {}, call |-> NoCall]

IsAuthenticated(token) == token # ""

UserCall_AcceptEmpty(g, op, args, respErr, respToken) ==
    IF ArgsMissing(op, args)
    THEN [did |-> Did(g, op, args, ArgError(op), "", "none", "", FALSE), store |-> FALSE]
    ELSE IF respErr
    THEN [did |-> Did(g, op, args, IF op = "Login" THEN "login failed" ELSE "registration failed",
                      "", op, "", FALSE), store |-> FALSE]
    ELSE [did |-> Did(g, op, args, "", "", op, "", FALSE), store |-> (op = "Login")]

UserCall_StoreOnError(g, op, args, respErr, respToken) ==
    IF ArgsMissing(op, args)
    THEN [did |-> Did(g, op, args, ArgError(op), "", "none", "", FALSE), store |-> FALSE]
    ELSE IF respErr
    THEN [did |-> Did(g, op, args, IF op = "Login" THEN "login failed" ELSE "registration failed",
                      "", op, "", FALSE), store |-> (op = "Login")]
    ELSE IF op = "Login" /\ respToken = ""
    THEN [did |-> Did(g, op, args, "login failed: received empty token", "", op, "", FALSE),
          store |-> FALSE]
    ELSE [did |-> Did(g, op, args, "", "", op, "", FALSE), store |-> (op = "Login")]

\* Login and Register up to the response of the RPC; store says whether Login goes
\* on to assign c.token.
UserCall(g, op, args, respErr, respToken) ==
    IF ArgsMissing(op, args)
    THEN [did |-> Did(g, op, args, ArgError(op), "", "none", "", FALSE), store |-> FALSE]
    ELSE IF respErr
    THEN [did |-> Did(g, op, args, IF op = "Login" THEN "login failed" ELSE "registration failed",
                      "", op, "", FALSE), store |-> FALSE]
    ELSE IF op = "Login" /\ respToken = ""
    THEN [did |-> Did(g, op, args, "login failed: received empty token", "", op, "", FALSE),
          store |-> FALSE]
    ELSE [did |-> Did(g, op, args, "", "", op, "", FALSE), store |-> (op = "Login")]

VaultCall_ArgsFirst(g, op, args, seen, sent, respErr, raced) ==
    IF ArgsMissing(op, args)
    THEN Did(g, op, args, ArgError(op), "", "none", "", raced)
    ELSE IF ~IsAuthenticated(seen)
    THEN Did(g, op, args, "not authenticated", "", "none", "", raced)
    ELSE Did(g, op, args, IF respErr THEN "failed" ELSE "",
             IF ~respErr /\ op \in IDOps THEN "id-1" ELSE "", op, sent, raced)

VaultCall_NoArgCheck(g, op, args, seen, sent, respErr, raced) ==
    IF ~IsAuthenticated(seen)
    THEN Did(g, op, args, "not authenticated", "", "none", "", raced)
    ELSE Did(g, op, args, IF respErr THEN "failed" ELSE "",
             IF ~respErr /\ op \in IDOps THEN "id-1" ELSE "", op, sent, raced)

\* A vault operation: seen is the token IsAuthenticated read, sent the token
\* GetAuthContext read.
VaultCall(g, op, args, seen, sent, respErr, raced) ==
    IF ~IsAuthenticated(seen)
    THEN Did(g, op, args, "not authenticated", "", "none", "", raced)
    ELSE IF ArgsMissing(op, args)
    THEN Did(g, op, args, ArgError(op), "", "none", "", raced)
    ELSE Did(g, op, args, IF respErr THEN "failed" ELSE "",
             IF ~respErr /\ op \in IDOps THEN "id-1" ELSE "", op, sent, raced)

\* The goroutines other than g that are assigning c.token.
Writers(g) == {h \in Goroutines \ {g} : client.pc[h] = "storing"}

\* What a read of c.token by g may yield.
ReadToken(g) ==
    IF Writers(g) = {} THEN {client.token}
    ELSE {client.token, Torn} \cup {client.pending[h] : h \in Writers(g)}

\* What c.token may hold after g assigned tok.
WriteToken(g, tok) == IF Writers(g) = {} THEN {tok} ELSE {tok, Torn}

InitClient ==
    /\ InitServer
    /\ cipher = NoCipher
    /\ client = NewClientWithConn
    /\ chain = NoChain
    /\ tui = NoTUI

ClientUserCall ==
    \E g \in Goroutines, op \in UserOps :
        /\ client.pc[g] = "idle"
        /\ \E args \in ClientArgs(op), respErr \in BOOLEAN, respToken \in ClientTokens :
              LET r == UserCall(g, op, args, respErr, respToken)
              IN  client' = [client EXCEPT
                      !.call = r.did,
                      !.pc[g] = IF r.store THEN "storing" ELSE "idle",
                      !.pending[g] = IF r.store THEN respToken ELSE "",
                      !.granted = IF r.store THEN @ \cup {respToken} ELSE @]
        /\ UNCHANGED <<server, cipher, chain, tui>>

\* Login's `c.token = resp.Token`.
ClientStoreToken ==
    \E g \in Goroutines :
        /\ client.pc[g] = "storing"
        /\ \E tok \in WriteToken(g, client.pending[g]) :
              client' = [client EXCEPT !.token = tok, !.pc[g] = "idle", !.pending[g] = ""]
        /\ UNCHANGED <<server, cipher, chain, tui>>

ClientVaultCall ==
    \E g \in Goroutines, op \in VaultOps :
        /\ client.pc[g] = "idle"
        /\ \E args \in ClientArgs(op), seen \in ReadToken(g), sent \in ReadToken(g),
              respErr \in BOOLEAN :
              client' = [client EXCEPT
                      !.call = VaultCall(g, op, args, seen, sent, respErr, Writers(g) # {})]
        /\ UNCHANGED <<server, cipher, chain, tui>>

NextClient == ClientUserCall \/ ClientStoreToken \/ ClientVaultCall

SpecClient == InitClient /\ [][NextClient]_vars

(***************************************************************************)
(* cmd/server/main.go: chainUnaryInterceptors and chainStreamInterceptors, *)
(* over the interceptor lists startServers builds (logging first when      *)
(* cfg.LogGRPCRequests is set, then auth).  A call through the chain       *)
(* leaves the events it caused, in order: the two log entries of the       *)
(* logging interceptor, the decision of the auth interceptor, the handler. *)
(***************************************************************************)
InterceptorLists == {<<"logging", "auth">>, <<"auth">>}

Event(ev, code) == [ev |-> ev, code |-> code]

\* `chained` after the loop has wrapped interceptors i..n around the handler.
RECURSIVE Chained(_, _, _, _, _, _)
Chained(interceptors, i, via, fullMethod, md, handlerCode) ==
    IF i > Len(interceptors)
    THEN [trace |-> <<Event("handler", handlerCode)>>, code |-> handlerCode]
    ELSE LET next == Chained(interceptors, i + 1, via, fullMethod, md, handlerCode)
             gate == IF via = "unary"
                     THEN AuthInterceptor(fullMethod, md, hmacSampleSecret, now)
                     ELSE StreamAuthInterceptor(fullMethod, md, hmacSampleSecret, now)
         IN  IF interceptors[i] = "logging"
             THEN [trace |-> <<Event("request", "")>> \o next.trace
                                \o <<Event("response", next.code)>>,
                   code  |-> next.code]
             ELSE IF gate.next
             THEN [trace |-> <<Event("auth", "OK")>> \o next.trace, code |-> next.code]
             ELSE [trace |-> <<Event("auth", gate.code)>>, code |-> gate.code]

Reverse(seq) == [i \in 1..Len(seq) |-> seq[Len(seq) + 1 - i]]

chainInterceptors_LastOutermost(interceptors, via, fullMethod, md, handlerCode) ==
    Chained(Reverse(interceptors), 1, via, fullMethod, md, handlerCode)

chainInterceptors(interceptors, via, fullMethod, md, handlerCode) ==
    Chained(interceptors, 1, via, fullMethod, md, handlerCode)

ChainMethods ==
    {UserMethod(V1, "Register"), UserMethod(V1, "Login"), MReflect}
        \cup {VaultMethod(V1, m) : m \in VaultMethodNames}

HandlerCodes == {"OK", "Internal"}

InitChain ==
    /\ users = {}
    /\ login_password = {}
    /\ text_data = {}
    /\ binary_data = {}
    /\ card_data = {}
    /\ meta = {}
    /\ nextUUID = 0
    /\ now = 0
    /\ hmacSampleSecret \in {DevSecret, EnvSecret}
    /\ issued = {CreateToken(1, TokenTTL, hmacSampleSecret, 0)}
    /\ last = Idle
    /\ cipher = NoCipher
    /\ client = NoClient
    /\ tui = NoTUI
    /\ \E l \in InterceptorLists : chain = [NoChain EXCEPT !.interceptors = l]

ChainCall(via, fullMethod) ==
    \E md \in Metadatas("interceptor"), handlerCode \in HandlerCodes :
        LET r == chainInterceptors(chain.interceptors, via, fullMethod, md, handlerCode)
        IN  /\ chain' = [interceptors |-> chain.interceptors, via |-> via,
                         method |-> fullMethod, md |-> md, at |-> now,
                         trace |-> r.trace, code |-> r.code]
            /\ UNCHANGED <<server, cipher, client, tui>>

ChainUnary == \E fullMethod \in ChainMethods \ {MReflect} : ChainCall("unary", fullMethod)

ChainStream == ChainCall("stream", MReflect)

NextChain == ChainUnary \/ ChainStream \/ Tick

SpecChain == InitChain /\ [][NextChain]_vars

(***************************************************************************)
(* cmd/client/tui: the terminal client.  One App holds the four screens;   *)
(* bubbletea hands App.Update one message at a time and runs the command   *)
(* Update returns in a goroutine of its own, whose result is the next      *)
(* message.  Strings the search looks into are sequences of one-character  *)
(* strings.  The Client behind the App is the vault service's tables for   *)
(* the one user TUIUser.                                                   *)
(***************************************************************************)
MaxPending == 1
MaxQuery   == 2
MaxKeys    == 6
MaxClock   == 3

MessageTTL == 3

TUIUser == 1

StateLogin    == "StateLogin"
StateMain     == "StateMain"
StateAddItem  == "StateAddItem"
StateViewItem == "StateViewItem"

TypeLoginPassword == 0
TypeTextData      == 1
TypeCardData      == 2
TypeBinaryData    == 3

LoginSuccessful == "Login successful!"
ItemDeleted     == "Item deleted successfully!"

\* strings.ToLower, one character.
LowerOf ==
    [A |-> "a", B |-> "b", C |-> "c", D |-> "d", E |-> "e", F |-> "f", G |-> "g",
     H |-> "h", I |-> "i", J |-> "j", K |-> "k", L |-> "l", M |-> "m", N |-> "n",
     O |-> "o", P |-> "p", Q |-> "q", R |-> "r", S |-> "s", T |-> "t", U |-> "u",
     V |-> "v", W |-> "w", X |-> "x", Y |-> "y", Z |-> "z"]

ToLower(s) == [i \in 1..Len(s) |-> IF s[i] \in DOMAIN LowerOf THEN LowerOf[s[i]] ELSE s[i]]

\* strings.Contains.
Contains(s, substr) ==
    \E i \in 0..(Len(s) - Len(substr)) : SubSeq(s, i + 1, i + Len(substr)) = substr

\* fmt's %d of a natural number.
RECURSIVE Itoa(_)
Itoa(n) ==
    LET digit == <<"0", "1", "2", "3", "4", "5", "6", "7", "8", "9">>
    IN  IF n < 10 THEN <<digit[n + 1]>> ELSE Itoa(n \div 10) \o <<digit[(n % 10) + 1]>>

\* The rows of a table in the order the response lists them.
RECURSIVE ByID(_)
ByID(rows) ==
    IF rows = {} THEN <<>>
    ELSE LET first == CHOOSE r \in rows : \A o \in rows : r.id <= o.id
         IN  <<first>> \o ByID(rows \ {first})

\* What the forms of the add screen hold when they are submitted, and what the
\* user's earlier items hold.
TUILogin  == <<"a", "d">>
TUIText   == <<"Q", "a">>
TUINumber == <<"4", "1", "1", "1", "1">>
TUIHolder == <<"R", "o">>

TUIRow(id, kind) ==
    CASE kind = "login_password" ->
            [id |-> id, user_id |-> TUIUser, login |-> TUILogin, password |-> <<"p">>]
      [] kind = "text" -> [id |-> id, user_id |-> TUIUser, text |-> TUIText]
      [] kind = "card" ->
            [id |-> id, user_id |-> TUIUser, number |-> TUINumber, cvv |-> Cvv123,
             holder |-> TUIHolder, expires |-> ParseYearMonth(ExpireISO).time]
      [] kind = "binary" -> [id |-> id, user_id |-> TUIUser, data |-> <<137, 80>>]

\* vault.GetVaultItemsResponse; nil before the first load.
NilVaultItems ==
    [nil |-> TRUE, LoginPasswords |-> <<>>, TextData |-> <<>>, CardData |-> <<>>,
     BinaryData |-> <<>>]

\* client.GetVaultItems for TUIUser.
ClientGetVaultItems ==
    [nil |-> FALSE,
     LoginPasswords |-> ByID(GetLoginPasswords(TUIUser)),
     TextData       |-> ByID(GetTextData(TUIUser)),
     CardData       |-> ByID(GetCardData(TUIUser)),
     BinaryData     |-> ByID(GetBinaryData(TUIUser))]

VaultDisplayItem(id, type, title, subtitle) ==
    [ID |-> id, Type |-> type, Title |-> title, Subtitle |-> subtitle]

NewMainScreen ==
    [cursor |-> 0, items |-> <<>>, vaultItems |-> NilVaultItems, searchMode |-> FALSE,
     searchQuery |-> <<>>]

maskCardNumber(number) ==
    IF Len(number) < 4 THEN number
    ELSE [i \in 1..(Len(number) - 4) |-> "*"]
             \o SubSeq(number, Len(number) - 3, Len(number))

convertItemsForDisplay(ms) ==
    LET v == ms.vaultItems
        logins == [i \in 1..Len(v.LoginPasswords) |->
                     VaultDisplayItem(v.LoginPasswords[i].id, TypeLoginPassword,
                         <<"L", "o", "g", "i", "n", ":", " ">> \o v.LoginPasswords[i].login,
                         <<"P", "a", "s", "s", "w", "o", "r", "d", " ", "e", "n", "t", "r", "y">>)]
        texts  == [i \in 1..Len(v.TextData) |->
                     LET text == v.TextData[i].text
                     IN  VaultDisplayItem(v.TextData[i].id, TypeTextData,
                             <<"T", "e", "x", "t", " ", "N", "o", "t", "e">>,
                             IF Len(text) > 50 THEN SubSeq(text, 1, 47) \o <<".", ".", ".">>
                             ELSE text)]
        cards  == [i \in 1..Len(v.CardData) |->
                     VaultDisplayItem(v.CardData[i].id, TypeCardData,
                         <<"C", "a", "r", "d", ":", " ">> \o maskCardNumber(v.CardData[i].number),
                         v.CardData[i].holder)]
        bins   == [i \in 1..Len(v.BinaryData) |->
                     VaultDisplayItem(v.BinaryData[i].id, TypeBinaryData,
                         <<"B", "i", "n", "a", "r", "y", " ", "F", "i", "l", "e">>,
                         <<"(">> \o Itoa(Len(v.BinaryData[i].data))
                             \o <<" ", "b", "y", "t", "e", "s", ")">>)]
    IN  [ms EXCEPT !.items = IF v.nil THEN <<>> ELSE logins \o texts \o cards \o bins]

SetVaultItems(ms, items) ==
    [convertItemsForDisplay([ms EXCEPT !.vaultItems = items]) EXCEPT !.cursor = 0]

Matches(item, query) ==
    Contains(ToLower(item.Title), query) \/ Contains(ToLower(item.Subtitle), query)

\* The items of a list that match, in the order of the list.
RECURSIVE Filtered(_, _)
Filtered(items, query) ==
    IF items = <<>> THEN <<>>
    ELSE (IF Matches(Head(items), query) THEN <<Head(items)>> ELSE <<>>)
             \o Filtered(Tail(items), query)

filterItems_NoClamp(ms) ==
    IF ms.searchQuery = <<>> THEN convertItemsForDisplay(ms)
    ELSE [ms EXCEPT !.items = Filtered(ms.items, ToLower(ms.searchQuery))]

filterItems(ms) ==
    IF ms.searchQuery = <<>> THEN convertItemsForDisplay(ms)
    ELSE LET filtered == Filtered(ms.items, ToLower(ms.searchQuery))
             c1 == IF ms.cursor >= Len(filtered) THEN Len(filtered) - 1 ELSE ms.cursor
         IN  [ms EXCEPT !.items = filtered, !.cursor = IF c1 < 0 THEN 0 ELSE c1]

\* A tea.Msg: its Go type, and the fields the handlers read.
Msg(kind, key, id, type, tag) ==
    [kind |-> kind, key |-> key, id |-> id, type |-> type, tag |-> tag]

NoMsg == Msg("", "", BadID, TypeLoginPassword, "")

KeyMsg(key) == Msg("KeyMsg", key, BadID, TypeLoginPassword, "")

Plain(kind) == Msg(kind, "", BadID, TypeLoginPassword, "")

\* A tea.Cmd: "msg" returns the message it closes over, the others call the
\* Client with the fields of the message they were built from.
Cmd(kind, msg) == [kind |-> kind, msg |-> msg]

NoCmd == Cmd("nil", NoMsg)

Quit == Cmd("Quit", NoMsg)

Send(msg) == Cmd("msg", msg)

Keys == {"up", "down", "enter", "esc", "backspace", "ctrl+c", "ctrl+r", "/",
         "q", "a", "d", "r", "c"}

\* tea.KeyMsg.Runes: the keys that type a character.
Runes(key) == IF key \in {"/", "q", "a", "d", "r", "c"} THEN <<key>> ELSE <<>>

\* What the user's hands decide: whether this key completes the huh form being
\* edited, and whether the two passwords typed were the same.
UserInputs == [completes : BOOLEAN, match : BOOLEAN]

Updated(s, cmd) == [s |-> s, cmd |-> cmd]

\* huh.Form.Update, as far as Form.State goes.
FormUpdate(form, msg, in) ==
    IF form = "editing" /\ msg.kind = "KeyMsg" /\ msg.key = "enter" /\ in.completes
    THEN "completed" ELSE form

NewLoginScreen == [isRegistering |-> FALSE, form |-> "editing"]

LoginScreenUpdate(ls, msg, in) ==
    IF msg.kind = "KeyMsg" /\ msg.key = "ctrl+r"
    THEN Updated([isRegistering |-> ~ls.isRegistering, form |-> "editing"], NoCmd)
    ELSE IF msg.kind = "KeyMsg" /\ msg.key = "enter" /\ ls.form = "completed"
    THEN IF ls.isRegistering
         THEN IF ~in.match THEN Updated(ls, Send(Plain("RegisterErrorMsg")))
              ELSE Updated(ls, Send(Plain("RegisterAttemptMsg")))
         ELSE Updated(ls, Send(Plain("LoginAttemptMsg")))
    ELSE Updated([ls EXCEPT !.form = FormUpdate(ls.form, msg, in)], NoCmd)

getItemTypeString(itemType) ==
    CASE itemType = TypeLoginPassword -> "login_password"
      [] itemType = TypeTextData      -> "text_data"
      [] itemType = TypeCardData      -> "card_data"
      [] itemType = TypeBinaryData    -> "binary_data"
      [] OTHER                        -> "unknown"

deleteItem(item) ==
    Send(Msg("DeleteItemAttemptMsg", "", item.ID, item.Type, getItemTypeString(item.Type)))

handleSearchInput(ms, msg) ==
    CASE msg.key = "escape" ->
            Updated(filterItems([ms EXCEPT !.searchMode = FALSE, !.searchQuery = <<>>]), NoCmd)
      [] msg.key = "enter" ->
            Updated(filterItems([ms EXCEPT !.searchMode = FALSE]), NoCmd)
      [] msg.key = "backspace" ->
            IF Len(ms.searchQuery) > 0
            THEN Updated(filterItems([ms EXCEPT !.searchQuery =
                            SubSeq(ms.searchQuery, 1, Len(ms.searchQuery) - 1)]), NoCmd)
            ELSE Updated(ms, NoCmd)
      [] OTHER ->
            IF Len(Runes(msg.key)) > 0
            THEN Updated(filterItems([ms EXCEPT !.searchQuery =
                            ms.searchQuery \o Runes(msg.key)]), NoCmd)
            ELSE Updated(ms, NoCmd)

MainScreenUpdate(ms, msg) ==
    IF msg.kind # "KeyMsg" THEN Updated(ms, NoCmd)
    ELSE IF ms.searchMode THEN handleSearchInput(ms, msg)
    ELSE CASE msg.key = "up" ->
                 Updated(IF ms.cursor > 0 THEN [ms EXCEPT !.cursor = ms.cursor - 1] ELSE ms,
                         NoCmd)
           [] msg.key = "down" ->
                 Updated(IF ms.cursor < Len(ms.items) - 1
                         THEN [ms EXCEPT !.cursor = ms.cursor + 1] ELSE ms, NoCmd)
           [] msg.key = "enter" ->
                 IF Len(ms.items) > 0
                 THEN LET item == ms.items[ms.cursor + 1]
                      IN  Updated(ms, Send(Msg("ViewItemMsg", "", item.ID, item.Type, "")))
                 ELSE Updated(ms, NoCmd)
           [] msg.key = "a" -> Updated(ms, Send(Plain("ShowAddMenuMsg")))
           [] msg.key = "d" ->
                 IF Len(ms.items) > 0
                 THEN Updated(ms, deleteItem(ms.items[ms.cursor + 1]))
                 ELSE Updated(ms, NoCmd)
           [] msg.key = "/" ->
                 Updated([ms EXCEPT !.searchMode = TRUE, !.searchQuery = <<>>], NoCmd)
           [] msg.key = "r" -> Updated(ms, Send(Plain("RefreshItemsMsg")))
           [] OTHER -> Updated(ms, NoCmd)

NewAddItemScreen ==
    [showMenu |-> TRUE, menuCursor |-> 0, itemType |-> TypeLoginPassword, form |-> "nil"]

SetItemType(ais, itemType) ==
    [ais EXCEPT !.itemType = itemType, !.showMenu = FALSE, !.form = "editing"]

handleMenuInput(ais, msg) ==
    CASE msg.key = "up" ->
            Updated(IF ais.menuCursor > 0
                    THEN [ais EXCEPT !.menuCursor = ais.menuCursor - 1] ELSE ais, NoCmd)
      [] msg.key = "down" ->
            Updated(IF ais.menuCursor < 3
                    THEN [ais EXCEPT !.menuCursor = ais.menuCursor + 1] ELSE ais, NoCmd)
      [] msg.key = "enter" ->
            Updated([ais EXCEPT !.itemType = ais.menuCursor, !.showMenu = FALSE,
                                !.form = "editing"], NoCmd)
      [] OTHER -> Updated(ais, NoCmd)

saveItem(ais) == Send(Msg("SaveItemAttemptMsg", "", BadID, ais.itemType, ""))

AddItemScreenUpdate(ais, msg, in) ==
    IF msg.kind # "KeyMsg" THEN Updated(ais, NoCmd)
    ELSE IF ais.showMenu THEN handleMenuInput(ais, msg)
    ELSE IF msg.key = "esc" /\ ais.form # "nil"
    THEN Updated([ais EXCEPT !.showMenu = TRUE, !.form = "nil"], NoCmd)
    ELSE IF msg.key = "enter" /\ ais.form = "completed"
    THEN Updated(ais, saveItem(ais))
    ELSE Updated([ais EXCEPT !.form = FormUpdate(ais.form, msg, in)], NoCmd)

\* AddItemScreen.Reset
ResetAddItem(ais) == [ais EXCEPT !.showMenu = TRUE, !.menuCursor = 0, !.form = "nil"]

\* item: the id of the item held, BadID for nil.
NewViewItemScreen == [item |-> BadID, itemType |-> TypeLoginPassword]

SetItem(vis, item, itemType) == [item |-> item, itemType |-> itemType]

deleteCurrentItem(vis) ==
    LET itemType == CASE vis.itemType = TypeLoginPassword -> "login_password"
                      [] vis.itemType = TypeTextData      -> "text_data"
                      [] vis.itemType = TypeCardData      -> "card_data"
                      [] vis.itemType = TypeBinaryData    -> "binary_data"
                      [] OTHER                            -> ""
    IN  IF vis.item # BadID
        THEN Send(Msg("DeleteItemAttemptMsg", "", vis.item, vis.itemType, itemType))
        ELSE NoCmd

ViewItemScreenUpdate(vis, msg) ==
    IF msg.kind # "KeyMsg" THEN Updated(vis, NoCmd)
    ELSE CASE msg.key = "d" ->
                 IF vis.item # BadID THEN Updated(vis, deleteCurrentItem(vis))
                 ELSE Updated(vis, NoCmd)
           [] msg.key = "c" -> Updated(vis, Send(Plain("CopyToClipboardMsg")))
           [] OTHER -> Updated(vis, NoCmd)

\* The App with its screens, the commands bubbletea is running for it (cmds), the
\* goroutines setMessage started (timers: the second each wakes at, and whether
\* it is asleep or inside clearMessage), the keys pressed so far, and
\* whether View read a.message while a timer was writing it (raced).
NewApp_AtMain ==
    [state |-> StateMain, isAuthenticated |-> FALSE, message |-> "", loading |-> FALSE,
     quit |-> FALSE, loginScreen |-> NewLoginScreen, mainScreen |-> NewMainScreen,
     addItemScreen |-> NewAddItemScreen, viewItemScreen |-> NewViewItemScreen,
     cmds |-> {}, keys |-> 0, clock |-> 0, timers |-> {}, raced |-> FALSE]

NewApp ==
    [state |-> StateLogin, isAuthenticated |-> FALSE, message |-> "", loading |-> FALSE,
     quit |-> FALSE, loginScreen |-> NewLoginScreen, mainScreen |-> NewMainScreen,
     addItemScreen |-> NewAddItemScreen, viewItemScreen |-> NewViewItemScreen,
     cmds |-> {}, keys |-> 0, clock |-> 0, timers |-> {}, raced |-> FALSE]

Timer(wake, pc) == [wake |-> wake, pc |-> pc]

clearMessage(a) == [a EXCEPT !.message = ""]

setMessage(a, message) ==
    [a EXCEPT !.message = message,
              !.timers = a.timers \cup {Timer(a.clock + MessageTTL, "sleeping")}]

\* The switch on the message's type; cmd is what a case returns at once, "fall"
\* where the case goes on to the current screen.
Fall == Cmd("fall", NoMsg)

AppSwitch(a, msg) ==
    CASE msg.kind = "KeyMsg" ->
            IF msg.key \in {"ctrl+c", "q"} /\ a.state = StateMain THEN Updated(a, Quit)
            ELSE IF msg.key = "esc" /\ a.state \in {StateAddItem, StateViewItem}
            THEN Updated(clearMessage([a EXCEPT !.state = StateMain]), Fall)
            ELSE Updated(a, Fall)
      [] msg.kind = "LoginSuccessMsg" ->
            Updated(setMessage([a EXCEPT !.isAuthenticated = TRUE, !.state = StateMain],
                               LoginSuccessful),
                    Cmd("loadVaultItems", NoMsg))
      [] msg.kind = "LoginErrorMsg" -> Updated(setMessage(a, "Login failed"), Fall)
      [] msg.kind = "RegisterSuccessMsg" ->
            Updated(setMessage(a, "Registration successful! Please log in."), Fall)
      [] msg.kind = "RegisterErrorMsg" ->
            Updated(setMessage(a, "Registration failed"), Fall)
      [] msg.kind = "VaultItemsLoadedMsg" ->
            Updated([a EXCEPT !.mainScreen = SetVaultItems(a.mainScreen, ClientGetVaultItems),
                              !.loading = FALSE], Fall)
      [] msg.kind = "VaultItemsErrorMsg" ->
            Updated([setMessage(a, "Failed to load items") EXCEPT !.loading = FALSE], Fall)
      [] msg.kind = "AddItemMsg" ->
            Updated(clearMessage([a EXCEPT !.state = StateAddItem,
                        !.addItemScreen = SetItemType(a.addItemScreen, msg.type)]), Fall)
      [] msg.kind = "ItemSavedMsg" ->
            Updated(setMessage([a EXCEPT !.state = StateMain], "Item saved successfully!"),
                    Cmd("loadVaultItems", NoMsg))
      [] msg.kind = "ItemSaveErrorMsg" ->
            Updated(setMessage(a, "Failed to save item"), Fall)
      [] msg.kind = "ViewItemMsg" ->
            Updated(clearMessage([a EXCEPT !.state = StateViewItem,
                        !.viewItemScreen = SetItem(a.viewItemScreen, msg.id, msg.type)]),
                    Fall)
      [] msg.kind = "DeleteItemMsg" ->
            Updated(setMessage([a EXCEPT !.state = StateMain], ItemDeleted),
                    Cmd("loadVaultItems", NoMsg))
      [] msg.kind = "DeleteItemErrorMsg" ->
            Updated(setMessage(a, "Failed to delete item"), Fall)
      [] msg.kind = "LoginAttemptMsg" -> Updated(a, Cmd("performLogin", msg))
      [] msg.kind = "RegisterAttemptMsg" -> Updated(a, Cmd("performRegister", msg))
      [] msg.kind = "ShowAddMenuMsg" ->
            Updated(clearMessage([a EXCEPT !.state = StateAddItem,
                        !.addItemScreen = ResetAddItem(a.addItemScreen)]), Fall)
      [] msg.kind = "SaveItemAttemptMsg" -> Updated(a, Cmd("performSaveItem", msg))
      [] msg.kind = "DeleteItemAttemptMsg" -> Updated(a, Cmd("performDeleteItem", msg))
      [] msg.kind = "RefreshItemsMsg" -> Updated(a, Cmd("loadVaultItems", NoMsg))
      [] msg.kind = "CopyToClipboardMsg" ->
            Updated(setMessage(a, "Copied to clipboard!"), Fall)
      [] OTHER -> Updated(a, Fall)

\* App.Update: the switch, then the Update of the screen the state now names.
AppUpdate(a, msg, in) ==
    LET sw == AppSwitch(a, msg)
        b  == sw.s
    IN  IF sw.cmd # Fall THEN sw
        ELSE CASE b.state = StateLogin ->
                     LET r == LoginScreenUpdate(b.loginScreen, msg, in)
                     IN  Updated([b EXCEPT !.loginScreen = r.s], r.cmd)
               [] b.state = StateMain ->
                     LET r == MainScreenUpdate(b.mainScreen, msg)
                     IN  Updated([b EXCEPT !.mainScreen = r.s], r.cmd)
               [] b.state = StateAddItem ->
                     LET r == AddItemScreenUpdate(b.addItemScreen, msg, in)
                     IN  Updated([b EXCEPT !.addItemScreen = r.s], r.cmd)
               [] b.state = StateViewItem ->
                     LET r == ViewItemScreenUpdate(b.viewItemScreen, msg)
                     IN  Updated([b EXCEPT !.viewItemScreen = r.s], r.cmd)

\* The commands in flight once Update returned cmd in place of the one that ran.
Pending(cmds, ran, cmd) ==
    (cmds \ ran) \cup (IF cmd \in {NoCmd, Quit} THEN {} ELSE {cmd})

\* bubbletea's event loop: Update on msg, then the command it returned started.
Handle(a, msg, in, ran) ==
    LET r == AppUpdate(a, msg, in)
    IN  /\ Cardinality(Pending(tui.cmds, ran, r.cmd)) <= MaxPending
        /\ Len(r.s.mainScreen.searchQuery) <= MaxQuery
        /\ tui' = [r.s EXCEPT !.cmds = Pending(tui.cmds, ran, r.cmd),
                              !.quit = (r.cmd = Quit)]

Running == tui.state # "none" /\ ~tui.quit

\* The user presses a key.
Press ==
    /\ Running
    /\ tui.keys < MaxKeys
    /\ \E key \in Keys, in \in UserInputs :
          Handle([tui EXCEPT !.keys = tui.keys + 1], KeyMsg(key), in, {})
    /\ UNCHANGED <<server, cipher, client, chain>>

NoInput == [completes |-> FALSE, match |-> FALSE]

\* A command that returns its message.
RunSend ==
    /\ Running
    /\ \E c \in tui.cmds : c.kind = "msg" /\ Handle(tui, c.msg, NoInput, {c})
    /\ UNCHANGED <<server, cipher, client, chain>>

\* performLogin, performRegister: client.Login and client.Register succeed or fail.
RunUserCall ==
    /\ Running
    /\ \E c \in tui.cmds, err \in BOOLEAN :
          \/ /\ c.kind = "performLogin"
             /\ Handle(tui, Plain(IF err THEN "LoginErrorMsg" ELSE "LoginSuccessMsg"),
                       NoInput, {c})
          \/ /\ c.kind = "performRegister"
             /\ Handle(tui, Plain(IF err THEN "RegisterErrorMsg" ELSE "RegisterSuccessMsg"),
                       NoInput, {c})
    /\ UNCHANGED <<server, cipher, client, chain>>

\* loadVaultItems: client.GetVaultItems.
RunLoad ==
    /\ Running
    /\ \E c \in tui.cmds, err \in BOOLEAN :
          /\ c.kind = "loadVaultItems"
          /\ Handle(tui, Plain(IF err THEN "VaultItemsErrorMsg" ELSE "VaultItemsLoadedMsg"),
                    NoInput, {c})
    /\ UNCHANGED <<server, cipher, client, chain>>

FreeIDs == ItemIDs \ ({r.id : r \in login_password} \cup {r.id : r \in text_data}
                        \cup {r.id : r \in binary_data} \cup {r.id : r \in card_data})

Leave(tables) ==
    /\ login_password' = tables.login_password
    /\ text_data' = tables.text_data
    /\ binary_data' = tables.binary_data
    /\ card_data' = tables.card_data
    /\ UNCHANGED <<users, meta, nextUUID, now, hmacSampleSecret, issued, last>>

\* performSaveItem: the Save* call of the item's type stores the form's fields
\* under a fresh id, or fails.
RunSave ==
    /\ Running
    /\ \E c \in tui.cmds, err \in BOOLEAN :
          /\ c.kind = "performSaveItem"
          /\ ~err => FreeIDs # {}
          /\ LET id == CHOOSE i \in FreeIDs : \A j \in FreeIDs : i <= j
                 t  == c.msg.type
             IN  IF err THEN Leave(Tables(FALSE, login_password, text_data, binary_data,
                                           card_data, meta))
                 ELSE Leave(Tables(TRUE,
                        IF t = TypeLoginPassword
                        THEN InsertLoginPassword(TUIRow(id, "login_password"))
                        ELSE login_password,
                        IF t = TypeTextData THEN InsertTextData(TUIRow(id, "text"))
                        ELSE text_data,
                        IF t = TypeBinaryData THEN InsertBinaryData(TUIRow(id, "binary"))
                        ELSE binary_data,
                        IF t = TypeCardData THEN InsertCardData(TUIRow(id, "card"))
                        ELSE card_data, meta))
          /\ Handle(tui, Plain(IF err THEN "ItemSaveErrorMsg" ELSE "ItemSavedMsg"), NoInput, {c})
    /\ UNCHANGED <<cipher, client, chain>>

\* performDeleteItem: client.DeleteVaultItem hands id and type tag to the
\* service, or fails before it.
RunDelete ==
    /\ Running
    /\ \E c \in tui.cmds, err \in BOOLEAN :
          /\ c.kind = "performDeleteItem"
          /\ Leave(IF err THEN Tables(FALSE, login_password, text_data, binary_data,
                                      card_data, meta)
                   ELSE ServiceDeleteVaultItem(c.msg.id, TUIUser, c.msg.tag))
          /\ Handle(tui, Plain(IF err THEN "DeleteItemErrorMsg" ELSE "DeleteItemMsg"),
                    NoInput, {c})
    /\ UNCHANGED <<cipher, client, chain>>

\* The second hand moves.
TUITick ==
    /\ Running
    /\ tui.clock < MaxClock
    /\ tui' = [tui EXCEPT !.clock = tui.clock + 1]
    /\ UNCHANGED <<server, cipher, client, chain>>

\* A goroutine of setMessage returns from time.Sleep and enters clearMessage.
TimerWake ==
    /\ Running
    /\ \E t \in tui.timers :
          /\ t.pc = "sleeping"
          /\ tui.clock >= t.wake
          /\ tui' = [tui EXCEPT !.timers = (tui.timers \ {t}) \cup {Timer(t.wake, "writing")}]
    /\ UNCHANGED <<server, cipher, client, chain>>

\* Its clearMessage assigns a.message and the goroutine ends.
TimerWrite ==
    /\ Running
    /\ \E t \in tui.timers :
          /\ t.pc = "writing"
          /\ tui' = [clearMessage(tui) EXCEPT !.timers = tui.timers \ {t}]
    /\ UNCHANGED <<server, cipher, client, chain>>

Writing == {t \in tui.timers : t.pc = "writing"}

\* App.View, the footer: the event loop reads a.message, whatever the timers do.
AppView ==
    /\ Running
    /\ tui' = [tui EXCEPT !.raced = tui.raced \/ Writing # {}]
    /\ UNCHANGED <<server, cipher, client, chain>>

TUIKinds == {"absent"} \cup ItemTypes

\* The program started against a vault in which TUIUser holds some items.
InitTUI ==
    /\ users = {[id |-> TUIUser, login |-> "alice", password |-> GenerateFromPassword("p1", 1)]}
    /\ hmacSampleSecret = DevSecret
    /\ issued = {}
    /\ now = 0
    /\ nextUUID = 0
    /\ last = Idle
    /\ meta = {}
    /\ cipher = NoCipher
    /\ client = NoClient
    /\ chain = NoChain
    /\ tui = NewApp
    /\ \E kind \in [ItemIDs -> TUIKinds] :
          /\ login_password = {TUIRow(i, "login_password")
                                  : i \in {j \in ItemIDs : kind[j] = "login_password"}}
          /\ text_data = {TUIRow(i, "text") : i \in {j \in ItemIDs : kind[j] = "text"}}
          /\ binary_data = {TUIRow(i, "binary") : i \in {j \in ItemIDs : kind[j] = "binary"}}
          /\ card_data = {TUIRow(i, "card") : i \in {j \in ItemIDs : kind[j] = "card"}}

\* The terminal client with the clock standing still.
NextTUI == Press \/ RunSend \/ RunUserCall \/ RunLoad \/ RunSave \/ RunDelete

SpecTUI == InitTUI /\ [][NextTUI]_vars

\* The login screen with the clock running and the message timers waking.
PressAtLogin == tui.state = StateLogin /\ Press

NextTimer ==
    PressAtLogin \/ RunSend \/ RunUserCall \/ RunLoad \/ TUITick \/ TimerWake \/ TimerWrite
        \/ AppView

SpecTimer == InitTUI /\ [][NextTimer]_vars

(***************************************************************************)
(* Properties.                                                             *)
(*                                                                         *)
(* Serves is a step that serves one call: the record of the call in flight *)
(* goes from idle to the call's outcome.  Credential is what the token     *)
(* validation makes of a call's metadata.  View is the response a          *)
(* successful GetVaultItems of a user returns in the current state.        *)
(***************************************************************************)
Serves == last = Idle /\ last' # Idle

Credential(md, secret, t) ==
    IF md.present /\ Len(md.authorization) > 0
    THEN ParseAndValidate(md.authorization[1], secret, t)
    ELSE [ok |-> FALSE, user_id |-> NoUser]

View(userID) == ToResponse(ServiceGetVaultItems(userID))

Items(userID) == [View(userID) EXCEPT !.meta = <<>>]

OwnedBy(items, userID) ==
    /\ \A r \in items.loginPasswords : r.user_id = userID
    /\ \A r \in items.textData : r.user_id = userID
    /\ \A r \in items.binaryData : r.user_id = userID
    /\ \A r \in items.cardData : r.user_id = userID

AllRowIDs ==
    {r.id : r \in login_password} \cup {r.id : r \in text_data}
        \cup {r.id : r \in binary_data} \cup {r.id : r \in card_data}

RowIDs(typ, owner) ==
    CASE typ = "login_password" -> {r.id : r \in {x \in login_password : x.user_id = owner}}
      [] typ = "text"           -> {r.id : r \in {x \in text_data : x.user_id = owner}}
      [] typ = "binary"         -> {r.id : r \in {x \in binary_data : x.user_id = owner}}
      [] typ = "card"           -> {r.id : r \in {x \in card_data : x.user_id = owner}}

ViewIDs(typ, userID) ==
    CASE typ = "login_password" -> {r.id : r \in View(userID).loginPasswords}
      [] typ = "text"           -> {r.id : r \in View(userID).textData}
      [] typ = "binary"         -> {r.id : r \in View(userID).binaryData}
      [] typ = "card"           -> {r.id : r \in View(userID).cardData}

CardVector == [number |-> Number4111, holder |-> "John Doe", expire |-> ExpireMMYY,
               cvv |-> Cvv123]

\* C1: a vault call, unary or stream, that carries no metadata, no authorization
\* value or a token ParseAndValidate rejects fails with code Unauthenticated, its
\* handler is not invoked and the store is unchanged by it; the stream interceptor
\* rejects every such call to a vault method as well.
C1_UnauthenticatedIsRejected ==
    [][ /\ ( /\ Serves
             /\ IsVaultCall(last'.op) \/ last'.via = "stream"
             /\ ~Credential(last'.md, hmacSampleSecret, now).ok )
           => ( /\ last'.code = "Unauthenticated"
                /\ ~last'.handlerRan
                /\ UNCHANGED <<store, nextUUID>> )
        /\ \A m \in VaultMethodNames, md \in Metadatas("interceptor") :
              ~Credential(md, hmacSampleSecret, now).ok
                 => StreamAuthInterceptor(VaultMethod(V1, m), md, hmacSampleSecret, now)
                        = Reject("Unauthenticated")
      ]_vars

\* C1 witness: a vault call carrying a well-formed token with a foreign signature was
\* turned away Unauthenticated while a user is registered.
C1_Witness ==
    /\ IsVaultCall(last.op)
    /\ last.md = Metadata(<<RawValue(ForgedToken)>>)
    /\ last.code = "Unauthenticated"
    /\ ~last.handlerRan
    /\ users # {}

\* C2: for every vault call whose token validates, the handler runs and the user id
\* it reads from the context is the one the installed interceptor attached, the
\* user id carried by the token.
C2_HandlerReadsAttachedUserID ==
    [][ ( /\ Serves
          /\ last'.via = "unary"
          /\ IsVaultCall(last'.op)
          /\ Credential(last'.md, hmacSampleSecret, now).ok )
        => ( /\ last'.handlerRan
             /\ last'.ctx.interceptorUserID
                    = Credential(last'.md, hmacSampleSecret, now).user_id
             /\ last'.ctxUser = Credential(last'.md, hmacSampleSecret, now).user_id )
      ]_vars

\* C2 witness: the interceptor attached a user id, the handler ran, found no user id
\* in its context and returned Internal.
C2_Witness ==
    /\ IsVaultCall(last.op)
    /\ last.handlerRan
    /\ last.ctx.interceptorUserID # NoUser
    /\ last.ctxUser = NoUser
    /\ last.code = "Internal"

\* C3: a token returned by Login, attached to a vault call the way the client
\* library's GetAuthContext attaches it, is accepted by the server's interceptor
\* while the token has not expired.
C3_ClientTokenAccepted ==
    \A tok \in issued :
        (tok.iat <= now /\ now < tok.exp)
            => AuthInterceptor(VaultMethod(V1, "GetVaultItems"), GetAuthContext(tok),
                               hmacSampleSecret, now).next

\* C3 witness: a call carrying an unexpired issued token in the client's format was
\* turned away, though the same token without the prefix is accepted.
C3_Witness ==
    \E tok \in issued :
        /\ tok.iat <= now /\ now < tok.exp
        /\ IsVaultCall(last.op)
        /\ last.md = GetAuthContext(tok)
        /\ last.code = "Unauthenticated"
        /\ AuthInterceptor(last.op, Metadata(<<RawValue(tok)>>), hmacSampleSecret, now).next

\* C4: every login/password, text, binary and card item GetVaultItems returns to a
\* user is owned by that user, and no vault call of one user changes the items any
\* other user is returned; an item a user saves is returned to that user.
C4_ItemsIsolatedPerUser ==
    [][ (Serves /\ IsVaultCall(last'.op) /\ last'.ctxUser # NoUser)
        => \A w \in UserIDs :
              w = Credential(last'.md, hmacSampleSecret, now).user_id
              => /\ last'.ctxUser = w
                 /\ (last'.op[3] = "GetVaultItems" /\ last'.code = "OK")
                       => (last'.resp.items = View(w) /\ OwnedBy(last'.resp.items, w))
                 /\ \A v \in UserIDs \ {w} : (Items(v))' = Items(v)
                 /\ \A v \in UserIDs : OwnedBy((Items(v))', v)
                 /\ ( /\ last'.op[3] \in {"SaveLoginPassword", "SaveTextData",
                                          "SaveBinaryData", "SaveCardData"}
                      /\ last'.code = "OK" )
                       => \E typ \in ItemTypes :
                             /\ last'.resp.id \in (ViewIDs(typ, w))'
                             /\ last'.resp.id \notin ViewIDs(typ, w)
      ]_vars

\* C4 witness: two users hold text items of identical content and a GetVaultItems
\* of one of them returned exactly one text item.
C4_Witness ==
    /\ \E a \in text_data, b \in text_data : a.user_id # b.user_id /\ a.text = b.text
    /\ last.op[3] = "GetVaultItems"
    /\ last.code = "OK"
    /\ Cardinality(last.resp.items.textData) = 1

\* C5: a DeleteVaultItem by user A that names the id and the type of an item owned
\* by another user B leaves B's item in the store and in B's next GetVaultItems,
\* for each of the four item types.
C5_DeleteScopedToCaller ==
    [][ (Serves /\ last'.op[3] = "DeleteVaultItem" /\ last'.ctxUser # NoUser)
        => \A typ \in ItemTypes, b \in UserIDs \ {last'.ctxUser} :
              (typ = last'.req.type /\ last'.req.id \in RowIDs(typ, b))
                 => /\ last'.req.id \in (RowIDs(typ, b))'
                    /\ last'.req.id \in (ViewIDs(typ, b))'
                    /\ (Items(b))' = Items(b)
      ]_vars

\* C5 witness: a DeleteVaultItem returned OK for the id and type of a card owned by
\* a user other than the caller.
C5_Witness ==
    /\ last.op[3] = "DeleteVaultItem"
    /\ last.ctxUser # NoUser
    /\ last.code = "OK"
    /\ last.req.type = "card"
    /\ \E c \in card_data : c.id = last.req.id /\ c.user_id # last.ctxUser

\* C6: a Login with the login and password of a registered user succeeds and
\* returns a non-empty token; a Login with a different password for a registered
\* login fails with code Unauthenticated and returns no token.
C6_LoginAfterRegister ==
    [][ ( /\ Serves
          /\ last'.op[3] = "Login"
          /\ last'.handlerRan
          /\ ~last'.fault )
        => \A u \in users :
              u.login = last'.req.login
              => IF CompareHashAndPassword(u.password, last'.req.password)
                 THEN last'.code = "OK" /\ last'.resp.token.form = "jwt"
                 ELSE last'.code = "Unauthenticated" /\ last'.resp.token = EmptyToken
      ]_vars

\* C6 witness: a Login with a wrong password for a registered login returned an
\* error whose code is not a gRPC status set by the handler.
C6_Witness ==
    /\ last.op[3] = "Login"
    /\ last.handlerRan
    /\ ~last.fault
    /\ \E u \in users :
          u.login = last.req.login /\ ~CompareHashAndPassword(u.password, last.req.password)
    /\ last.code = "Unknown"
    /\ last.resp.token = EmptyToken

\* C7: a Register with a login that is already registered fails with code
\* AlreadyExists and leaves the user records (id, login, password hash) unchanged.
C7_DuplicateRegister ==
    [][ ( /\ Serves
          /\ last'.op[3] = "Register"
          /\ last'.handlerRan
          /\ ~last'.fault
          /\ GetUserByLogin(last'.req.login) # {} )
        => (last'.code = "AlreadyExists" /\ users' = users)
      ]_vars

\* C7 witness: a second Register of a registered login returned the store's
\* unique-violation error as it is; the user records are those of the first.
C7_Witness ==
    /\ last.op[3] = "Register"
    /\ last.handlerRan
    /\ ~last.fault
    /\ last.code = "Unknown"
    /\ Cardinality(GetUserByLogin(last.req.login)) = 1

\* C8: after SaveTextData(x) returns id i, the user's GetVaultItems holds exactly
\* one text item with id i, its text is x, and the text count grew by one; after a
\* successful DeleteVaultItem(i, "text") it holds no text item with id i and the
\* other text items are the ones held before.
C8_TextSaveGetDelete ==
    [][ (Serves /\ IsVaultCall(last'.op) /\ last'.ctxUser # NoUser /\ last'.code = "OK")
        => \A u \in UserIDs :
              u = last'.ctxUser
              => /\ last'.op[3] = "SaveTextData"
                       => /\ {t \in (View(u).textData)' : t.id = last'.resp.id}
                                = {[id |-> last'.resp.id, user_id |-> u,
                                    text |-> last'.req.text]}
                          /\ Cardinality((View(u).textData)')
                                = Cardinality(View(u).textData) + 1
                 /\ (last'.op[3] = "DeleteVaultItem" /\ last'.req.type = "text")
                       => (View(u).textData)'
                             = {t \in View(u).textData : t.id # last'.req.id}
      ]_vars

\* C8 witness: a SaveTextData("x") returned the second id drawn and the stored
\* text item with that id is the only row left: the item saved before it was deleted.
C8_Witness ==
    /\ last.op[3] = "SaveTextData"
    /\ last.code = "OK"
    /\ last.req.text = "x"
    /\ last.resp.id = MaxUsers + 2
    /\ text_data = {[id |-> last.resp.id, user_id |-> last.ctxUser, text |-> "x"]}
    /\ login_password = {} /\ binary_data = {} /\ card_data = {} /\ meta = {}

\* C9: SaveCardData with number "4111111111111111", holder "John Doe", expire
\* "12/25" and cvv "123" is accepted, and the caller's next GetVaultItems returns a
\* card with the returned id and identical number, holder, expire and cvv.
C9_CardRoundTrip ==
    [][ ( /\ Serves
          /\ last'.op[3] = "SaveCardData"
          /\ last'.ctxUser # NoUser
          /\ ~last'.fault
          /\ last'.req = CardVector )
        => /\ last'.code = "OK"
           /\ \A u \in UserIDs :
                 u = last'.ctxUser
                 => \E c \in (View(u).cardData)' :
                       /\ c.id = last'.resp.id
                       /\ c.number = CardVector.number
                       /\ c.holder = CardVector.holder
                       /\ c.expire = CardVector.expire
                       /\ c.cvv = CardVector.cvv
      ]_vars

\* C9 witness: SaveCardData with expire "12/25" returned the parse error of the
\* expiry and stored no card.
C9_Witness ==
    /\ last.op[3] = "SaveCardData"
    /\ last.ctxUser # NoUser
    /\ ~last.fault
    /\ last.req = CardVector
    /\ last.code = "Unknown"
    /\ card_data = {}

\* C10: in every reachable store state the password of each login_password row and
\* the number and cvv of each card_data row are outputs of Encrypt (a nonce followed
\* by ciphertext that Decrypt accepts), not the bytes the caller submitted.
C10_EncryptedAtRest ==
    /\ \A r \in login_password : Decrypt(r.password).ok
    /\ \A c \in card_data : Decrypt(c.number).ok /\ Decrypt(c.cvv).ok

\* C10 witness: the row a SaveLoginPassword stored holds the password bytes of the
\* request.
C10_Witness ==
    /\ last.op[3] = "SaveLoginPassword"
    /\ last.code = "OK"
    /\ \E r \in login_password : r.id = last.resp.id /\ r.password = last.req.password

\* C11: GetVaultItems is fail-closed: when a fetch of the call fails, or a stored
\* field of one of the caller's items does not decrypt, the call returns an error
\* and no item list.
C11_GetVaultItemsFailClosed ==
    [][ (Serves /\ last'.op[3] = "GetVaultItems" /\ last'.ctxUser # NoUser)
        => \A u \in UserIDs :
              ( /\ u = last'.ctxUser
                /\ \/ last'.fault
                   \/ \E r \in GetLoginPasswords(u) : ~Decrypt(r.password).ok
                   \/ \E r \in GetCardData(u) : ~Decrypt(r.number).ok \/ ~Decrypt(r.cvv).ok )
              => (last'.code # "OK" /\ last'.resp.items = NoItems)
      ]_vars

\* C11 witness: a GetVaultItems returned OK with a login/password item whose stored
\* password Decrypt rejects.
C11_Witness ==
    /\ last.op[3] = "GetVaultItems"
    /\ last.code = "OK"
    /\ \E r \in last.resp.items.loginPasswords : ~Decrypt(r.password).ok

ReturnedIDs(items) ==
    {r.id : r \in items.loginPasswords} \cup {r.id : r \in items.textData}
        \cup {r.id : r \in items.binaryData} \cup {r.id : r \in items.cardData}

\* C12: the Meta part of the GetVaultItems result is keyed by item id: for every
\* item returned to the caller the result maps that item's id to the Meta rows whose
\* relation is that id, and it holds no Meta row whose relation is not the id of a
\* returned item.
C12_MetaKeyedByItemID ==
    [][ (Serves /\ last'.op[3] = "GetVaultItems" /\ last'.code = "OK")
        => LET ids   == ReturnedIDs(last'.resp.items)
               metas == last'.resp.items.meta
           IN  /\ DOMAIN metas = {i \in ids : \E m \in meta : m.relation = i}
               /\ \A k \in DOMAIN metas : metas[k].item_id = k
               /\ \A k \in DOMAIN metas : metas[k].item_id \in ids
      ]_vars

\* C12 witness: a GetVaultItems returned one item and two Meta entries, both
\* naming that item, while the store holds a second item.
C12_Witness ==
    /\ last.op[3] = "GetVaultItems"
    /\ last.code = "OK"
    /\ \E i \in ReturnedIDs(last.resp.items) :
          /\ ReturnedIDs(last.resp.items) = {i}
          /\ Cardinality(DOMAIN last.resp.items.meta) = 2
          /\ \A k \in DOMAIN last.resp.items.meta : last.resp.items.meta[k].item_id = i
    /\ Cardinality(AllRowIDs) = 2

Validate(tok) == ParseAndValidate(RawValue(tok), hmacSampleSecret, now)

IssuedByLogin(tok) ==
    /\ tok.form = "jwt"
    /\ tok.exp = tok.iat + TokenTTL
    /\ UserExists(tok.user_id)

\* C13 as stated: a token issued by Login validates to its user at every time
\* within [issuedAt, expiresAt], both ends included, and fails after expiresAt.
C13_ValidWithinClosedWindow ==
    \A tok \in issued :
        /\ (tok.iat <= now /\ now <= tok.exp)
              => (Validate(tok).ok /\ Validate(tok).user_id = tok.user_id)
        /\ now > tok.exp => ~Validate(tok).ok

\* C13 (amended): a token issued by Login for user u with the 24-hour TTL validates
\* to exactly u at every time t with issuedAt <= t < expiresAt, whatever calls
\* happened in between, and validation fails for it at expiresAt and at every later
\* time, and at any time for a token with a bad signature or a malformed structure.
C13_ValidWithinWindow ==
    /\ \A tok \in issued :
          /\ IssuedByLogin(tok)
          /\ tok.iat <= now
          /\ now < tok.exp => (Validate(tok).ok /\ Validate(tok).user_id = tok.user_id)
          /\ now >= tok.exp => ~Validate(tok).ok
    /\ ~Validate(ForgedToken).ok
    /\ ~Validate(GarbageToken).ok
    /\ \A tok \in issued : ~ParseAndValidate(BearerValue(tok), hmacSampleSecret, now).ok

\* C13 witness: of two tokens issued to different users, one is past its expiry and
\* fails while the other is inside its window and validates.
C13_Witness ==
    \E old, new \in issued :
        /\ old.user_id # new.user_id
        /\ now > old.exp
        /\ ~Validate(old).ok
        /\ Validate(new).ok
        /\ Validate(new).user_id = new.user_id

ExemptMethods == {"Register", "Login"}

\* C14: Register and Login are exempt from the auth gate: for these two methods the
\* interceptor invokes the handler with the unchanged context, whether the call
\* carries no metadata, no token, or an invalid token; so every Register and Login
\* call reaches its handler with the context of the call and is never answered
\* Unauthenticated.
C14_RegisterLoginExempt ==
    [][ /\ \A m \in ExemptMethods, md \in Metadatas("interceptor") :
              /\ AuthInterceptor(UserMethod(V1, m), md, hmacSampleSecret, now)
                    = Pass(Background)
              /\ UnaryServerInterceptor(UserMethod(V0, m), md, hmacSampleSecret, now)
                    = Pass(Background)
        /\ (Serves /\ last'.op[3] \in ExemptMethods)
              => /\ last'.handlerRan
                 /\ last'.ctx = Background
                 /\ last'.code # "Unauthenticated"
      ]_vars

\* C14 witness: a Register carrying an invalid token was served by its handler and
\* created the user.
C14_Witness ==
    /\ last.op[3] = "Register"
    /\ last.md = Metadata(<<RawValue(GarbageToken)>>)
    /\ last.handlerRan
    /\ last.code = "OK"
    /\ \E u \in users : u.login = last.req.login

MethodNames ==
    {UserMethod(V1, m) : m \in ExemptMethods}
        \cup {VaultMethod(V1, m) : m \in VaultMethodNames} \cup {MReflect}

\* C15: the stream auth interceptor applies the same logic as the unary one: for
\* every method name and every call metadata the two make the same accept/reject
\* decision (including the Register/Login exemption) and attach the same user id,
\* and a stream handler runs only after the validation at stream open succeeded.
C15_StreamSameAsUnary ==
    /\ \A f \in MethodNames, md \in Metadatas("interceptor") :
          LET stream == StreamAuthInterceptor(f, md, hmacSampleSecret, now)
              unary  == AuthInterceptor(f, md, hmacSampleSecret, now)
          IN  /\ stream.next = unary.next
              /\ stream.code = unary.code
              /\ stream.ctx.interceptorUserID = unary.ctx.interceptorUserID
    /\ (last.via = "stream" /\ last.handlerRan)
          => /\ Credential(last.md, hmacSampleSecret, now).ok
             /\ last.ctx.interceptorUserID
                   = Credential(last.md, hmacSampleSecret, now).user_id

\* C15 witness: a streaming call with an issued token was accepted and its handler
\* ran with the token's user attached.
C15_Witness ==
    /\ last.via = "stream"
    /\ last.handlerRan
    /\ last.ctx.interceptorUserID # NoUser
    /\ \E t \in issued : last.md = Metadata(<<RawValue(t)>>)

\* C16: Register rejects an empty login or an empty password: such a call returns an
\* error, persists no user record and issues no token.
C16_RegisterRejectsEmpty ==
    [][ ( /\ Serves
          /\ last'.op[3] = "Register"
          /\ last'.handlerRan
          /\ (last'.req.login = "" \/ last'.req.password = "") )
        => /\ last'.code # "OK"
           /\ users' = users
           /\ issued' = issued
           /\ last'.resp.token = EmptyToken
      ]_vars

\* C16 witness: the server registered a user whose login is empty.
C16_Witness ==
    /\ last.op[3] = "Register"
    /\ last.code = "OK"
    /\ last.req.login = ""
    /\ \E u \in users : u.login = ""

SaveMethods == {"SaveLoginPassword", "SaveTextData", "SaveBinaryData", "SaveCardData"}

RequiredFieldEmpty(method, req) ==
    CASE method = "SaveLoginPassword" -> req.login = "" \/ req.password = <<>>
      [] method = "SaveTextData"      -> req.text = ""
      [] method = "SaveBinaryData"    -> req.data = <<>>
      [] method = "SaveCardData"      -> \/ req.number = <<>> \/ req.holder = ""
                                         \/ req.expire = <<>> \/ req.cvv = <<>>

\* C17: each Save* operation validates that its required fields are non-empty and
\* fails with InvalidArgument before any store access when one is empty, so that a
\* rejected save persists nothing; a successful save returns the id of the newly
\* persisted item.
C17_SaveValidatesRequiredFields ==
    [][ ( /\ Serves
          /\ last'.op[3] \in SaveMethods
          /\ last'.ctxUser # NoUser
          /\ ~last'.fault )
        => /\ RequiredFieldEmpty(last'.op[3], last'.req)
                => (last'.code = "InvalidArgument" /\ vault' = vault)
           /\ last'.code = "OK"
                => (last'.resp.id \in AllRowIDs' /\ last'.resp.id \notin AllRowIDs)
           /\ last'.code # "OK" => vault' = vault
      ]_vars

\* C17 witness: a SaveTextData with an empty text succeeded and its row is stored.
C17_Witness ==
    /\ last.op[3] = "SaveTextData"
    /\ last.code = "OK"
    /\ last.req.text = ""
    /\ \E r \in text_data : r.id = last.resp.id /\ r.text = "" /\ r.user_id = last.ctxUser

UnparsableExpiries == {ExpireMMYY, <<>>}

C19_UnknownTypeNoOp ==
    [][ ( /\ Serves
          /\ last'.op[3] = "DeleteVaultItem"
          /\ last'.ctxUser # NoUser
          /\ last'.req.type \notin ItemTypes )
        => /\ last'.code = "OK"
           /\ ~last'.fault
           /\ vault' = vault
           /\ users' = users
      ]_vars

\* C19 witness: a delete with the tag "note" of an id under which the caller owns a
\* text item that has a Meta row returned OK, and the item and the row are stored.
C19_Witness ==
    /\ last.op[3] = "DeleteVaultItem"
    /\ last.ctxUser # NoUser
    /\ last.req.type \notin ItemTypes
    /\ last.code = "OK"
    /\ \E r \in text_data : r.id = last.req.id /\ r.user_id = last.ctxUser
    /\ \E m \in meta : m.relation = last.req.id

Without(rows, id, userID) == {r \in rows : ~(r.id = id /\ r.user_id = userID)}

\* C20: deleting a vault item does not cascade to Meta: a successful DeleteVaultItem
\* of item i leaves the Meta table as it was, so every Meta row whose relation is i
\* is still stored, and it removes no row other than the row of the named type that
\* matches (i, caller).
C20_DeleteDoesNotCascade ==
    [][ ( /\ Serves
          /\ last'.op[3] = "DeleteVaultItem"
          /\ last'.ctxUser # NoUser
          /\ last'.code = "OK" )
        => \A u \in UserIDs :
              u = last'.ctxUser
              => /\ meta' = meta
                 /\ users' = users
                 /\ login_password' = IF last'.req.type = "login_password"
                                       THEN Without(login_password, last'.req.id, u)
                                       ELSE login_password
                 /\ text_data' = IF last'.req.type = "text"
                                  THEN Without(text_data, last'.req.id, u)
                                  ELSE text_data
                 /\ binary_data' = IF last'.req.type = "binary"
                                    THEN Without(binary_data, last'.req.id, u)
                                    ELSE binary_data
                 /\ card_data' = IF last'.req.type = "card"
                                  THEN Without(card_data, last'.req.id, u)
                                  ELSE card_data
      ]_vars

\* C20 witness: after a successful delete of item i, which had two Meta rows, no
\* item has the id i, both Meta rows are stored, and the other item is stored.
C20_Witness ==
    /\ last.op[3] = "DeleteVaultItem"
    /\ last.code = "OK"
    /\ last.req.type \in ItemTypes
    /\ last.req.id \notin AllRowIDs
    /\ Cardinality({m \in meta : m.relation = last.req.id}) = 2
    /\ AllRowIDs # {}

\* The Meta rows of entries 1..n of a batch, as VaultServer.SaveMeta builds them.
MetaRowsOf(entries, n) ==
    {[id |-> FreshItemID(i), relation |-> entries[i].item_id,
      name |-> entries[i].key, data |-> entries[i].value] : i \in 1..n}

\* C21: SaveMeta is not atomic over its batch: when the store insert of entry k
\* fails, the call returns that error, entries 1..k-1 remain persisted and entries
\* k..n are not persisted; when no insert fails, all n entries are persisted.
C21_SaveMetaNotAtomic ==
    [][ ( /\ Serves
          /\ last'.op[3] = "SaveMeta"
          /\ last'.ctxUser # NoUser
          /\ \A i \in 1..Len(last'.req.meta) : last'.req.meta[i].item_id # BadID )
        => LET entries == last'.req.meta
           IN  /\ last'.fault
                    => /\ last'.code # "OK"
                       /\ last'.failAt \in 1..Len(entries)
                       /\ meta' = meta \cup MetaRowsOf(entries, last'.failAt - 1)
                       /\ Cardinality(meta') = Cardinality(meta) + last'.failAt - 1
               /\ ~last'.fault
                    => /\ last'.code = "OK"
                       /\ meta' = meta \cup MetaRowsOf(entries, Len(entries))
                       /\ Cardinality(meta') = Cardinality(meta) + Len(entries)
               /\ UNCHANGED <<users, login_password, text_data, binary_data, card_data>>
      ]_vars

\* C21 witness: a SaveMeta batch of two entries returned an error and exactly its
\* first entry is stored.
C21_Witness ==
    /\ last.op[3] = "SaveMeta"
    /\ last.fault
    /\ last.failAt = 2
    /\ last.code # "OK"
    /\ Len(last.req.meta) = 2
    /\ Cardinality(meta) = 1
    /\ \E m \in meta : m.relation = last.req.meta[1].item_id

\* A table changes only by rows that leave it and by rows with a fresh id that
\* enter it: a row that stays keeps its owner and every content field.
Lifecycle(before, after) ==
    /\ \A r \in before : \A q \in after : q.id = r.id => q = r
    /\ \A q \in after \ before : q.id \notin AllRowIDs /\ q.id > MaxUsers + nextUUID

\* C22: through the RPC surface a vault item only moves Absent -> Present (Save) ->
\* Absent (Delete): no call changes the owning user id or a content field of an
\* item that is present, an id that was used is not used again, a row enters a table
\* only by a successful Save* of its caller, and SaveLoginPassword always inserts
\* a new item (it never updates a stored one).
C22_ItemLifecycle ==
    [][ /\ Lifecycle(login_password, login_password')
        /\ Lifecycle(text_data, text_data')
        /\ Lifecycle(binary_data, binary_data')
        /\ Lifecycle(card_data, card_data')
        /\ \A q \in (login_password' \ login_password) \cup (text_data' \ text_data)
                      \cup (binary_data' \ binary_data) \cup (card_data' \ card_data) :
              /\ last'.op[3] \in SaveMethods
              /\ last'.code = "OK"
              /\ q.id = last'.resp.id
              /\ q.user_id = last'.ctxUser
        /\ (Serves /\ last'.op[3] = "SaveLoginPassword" /\ last'.code = "OK")
              => /\ Cardinality(login_password') = Cardinality(login_password) + 1
                 /\ \E q \in login_password' \ login_password :
                       /\ q.id = last'.resp.id
                       /\ q.login = last'.req.login
                       /\ q.password = last'.req.password
      ]_vars

\* C22 witness: a second user's SaveLoginPassword succeeded while the first user's
\* login/password item is stored.
C22_Witness ==
    /\ last.op[3] = "SaveLoginPassword"
    /\ last.code = "OK"
    /\ Cardinality(login_password) = 2
    /\ \E q \in login_password : q.id = last.resp.id /\ q.user_id = last.ctxUser

\* C23: the token-signing secret is written only during process initialization: no
\* step of call handling assigns it, and every issued token is validated with the
\* secret it was signed with.  (The cipher key has no assignment outside init and
\* is the fixed CipherKey of the model.)
C23_SecretImmutableAfterInit ==
    [][ /\ hmacSampleSecret' = hmacSampleSecret
        /\ \A tok \in issued' : tok.sig = hmacSampleSecret'
      ]_vars

\* C23 witness: a Login has replaced the empty secret read at initialization by the
\* development secret and signed its token with it.
C23_Witness ==
    /\ last.op[3] = "Login"
    /\ last.code = "OK"
    /\ hmacSampleSecret = DevSecret
    /\ last.resp.token.sig = DevSecret

\* C24: cancellation is propagated to the store: every store operation of a call is
\* issued under that call's context, so once the caller has cancelled, no further
\* store mutation is started for the call (the remaining entries of a SaveMeta batch
\* are not inserted) and the call returns an error.
C24_CancellationReachesStore ==
    [][ (Serves /\ last'.cancelAt # 0)
        => /\ last'.code # "OK"
           /\ last'.fault
           /\ UNCHANGED <<users, login_password, text_data, binary_data, card_data,
                          issued, hmacSampleSecret>>
           /\ \/ meta' = meta
              \/ /\ last'.op[3] = "SaveMeta"
                 /\ last'.failAt \in 1..last'.cancelAt
                 /\ meta' = meta \cup MetaRowsOf(last'.req.meta, last'.failAt - 1)
      ]_vars

\* C24 witness: the caller of a two-entry SaveMeta cancelled after the first insert:
\* the call returned an error, the first entry is stored and the second is not.
C24_Witness ==
    /\ last.op[3] = "SaveMeta"
    /\ last.cancelAt = 2
    /\ last.failAt = 2
    /\ last.code # "OK"
    /\ Cardinality(meta) = 1
    /\ \E m \in meta : m.relation = last.req.meta[1].item_id

\* C25: for every byte sequence p, the empty one included, Decrypt(Encrypt(p))
\* succeeds and returns exactly p, under the one process-wide key and whatever
\* nonce Encrypt drew.
C25_DecryptInvertsEncrypt ==
    (cipher.step = "opened" /\ cipher.damage = "none")
        => /\ cipher.result.ok
           /\ cipher.result.plaintext = cipher.plaintext
           /\ Len(cipher.input) = NonceSize + Len(cipher.plaintext) + TagSize

\* C25 witness: the empty byte sequence was encrypted and decrypted.
C25_Witness ==
    /\ cipher.step = "opened"
    /\ cipher.damage = "none"
    /\ cipher.plaintext = <<>>
    /\ cipher.result.ok

\* C26: Decrypt never returns plaintext for a damaged input: for an input shorter
\* than the nonce size, and for an Encrypt output in which one byte of the nonce
\* prefix, of the ciphertext or of the tag was changed, Decrypt returns an error and
\* no plaintext.
C26_DecryptRejectsDamaged ==
    (cipher.step = "opened" /\ cipher.damage # "none")
        => /\ ~cipher.result.ok
           /\ cipher.result.plaintext = <<>>

\* C26 witness: an Encrypt output of a non-empty plaintext with one ciphertext byte
\* changed was refused.
C26_Witness ==
    /\ cipher.step = "opened"
    /\ cipher.damage = "ciphertext"
    /\ cipher.plaintext # <<>>
    /\ ~cipher.result.ok

\* C27: every vault operation of the client library called while the Client holds
\* no token (and no Login is assigning one) returns "not authenticated" without
\* sending an RPC, whatever its arguments: the check precedes the argument checks.
C27_NotAuthenticatedFirst ==
    [][ /\ client.token = ""
        /\ \A g \in Goroutines : client.pc[g] = "idle"
        /\ client'.call # client.call
        /\ client'.call.op \in VaultOps
        => /\ client'.call.err = "not authenticated"
           /\ client'.call.rpc = "none"
           /\ client'.call.id = ""
           /\ client'.token = ""
      ]_vars

\* C27 witness: SaveCardData with an empty field on a Client without a token was
\* answered "not authenticated".
C27_Witness ==
    /\ client.token = ""
    /\ client.granted = {}
    /\ client.call.op = "SaveCardData"
    /\ ArgsMissing("SaveCardData", client.call.args)
    /\ client.call.err = "not authenticated"

\* C28: the Client stores a token only from a Login response that succeeded with a
\* non-empty token: a Login answered with an empty token returns "received empty
\* token" and stores nothing, c.token changes only in Login's assignment, and
\* IsAuthenticated() is true only if an earlier Login returned a non-empty token.
C28_TokenOnlyFromLogin ==
    [][ /\ (client'.token # client.token
               => \E g \in Goroutines : /\ client.pc[g] = "storing"
                                        /\ client.pending[g] \in client.granted
                                        /\ client'.pc[g] = "idle")
        /\ "" \notin client'.granted
        /\ (IsAuthenticated(client'.token) => client'.granted # {})
        /\ \A g \in Goroutines :
              (client'.pc[g] = "storing" /\ client.pc[g] = "idle")
                  => /\ client'.call.op = "Login"
                     /\ client'.call.rpc = "Login"
                     /\ client'.call.err = ""
                     /\ client'.pending[g] # ""
        /\ (client'.call # client.call /\ client'.call.op = "Login" /\ client'.call.err # "")
              => /\ client'.token = client.token
                 /\ client'.pc[client'.call.g] = "idle"
                 /\ client'.granted = client.granted
      ]_vars

\* C28 witness: a Login answered with an empty token was refused on a Client that
\* holds no token.
C28_Witness ==
    /\ client.call.op = "Login"
    /\ client.call.err = "login failed: received empty token"
    /\ client.call.rpc = "Login"
    /\ ~IsAuthenticated(client.token)

\* C29: the client library rejects empty required arguments locally: a call of
\* Login, Register, SaveLoginPassword, SaveTextData, SaveCardData, SaveBinaryData,
\* SaveMeta or DeleteVaultItem with an empty required argument returns an error and
\* an empty id, sends no RPC and stores nothing.
C29_EmptyArgumentsRejectedLocally ==
    [][ /\ client'.call # client.call
        /\ ArgsMissing(client'.call.op, client'.call.args)
        => /\ client'.call.err # ""
           /\ client'.call.id = ""
           /\ client'.call.rpc = "none"
           /\ client'.token = client.token
           /\ client'.pc = client.pc
      ]_vars

\* C29 witness: an authenticated Client refused SaveCardData with an empty field
\* for its argument.
C29_Witness ==
    /\ IsAuthenticated(client.token)
    /\ client.call.op = "SaveCardData"
    /\ client.call.err = "all card fields are required"
    /\ client.call.rpc = "none"

\* C30: one Client is safe for concurrent use: the token is never read while it
\* is being written, and every vault call that sends an RPC carries a complete
\* token that Login returned and stored.
C30_ConcurrentUseSafe ==
    /\ ~client.call.raced
    /\ client.token \in {""} \cup client.granted
    /\ (client.call.rpc \in VaultOps => client.call.carried \in client.granted)

\* C30 witness: a vault call read c.token while a Login of another goroutine was
\* assigning it, and sent an RPC with a mixed token.
C30_Witness ==
    /\ client.call.raced
    /\ client.call.rpc \in VaultOps
    /\ client.call.carried = Torn

\* C31: SaveTextData calls of one authenticated user, served in any order, all
\* succeed and return pairwise distinct ids: each adds one text item under an id no
\* stored item has; a GetVaultItems issued afterwards returns every text item the
\* user holds; a DeleteVaultItem of such an id with the tag "text" succeeds and
\* removes the item.  (Calls the store fails or the caller cancels are set aside.)
C31_ConcurrentSavesAllStored ==
    [][ (Serves /\ IsVaultCall(last'.op) /\ ~last'.fault)
        => \A u \in UserIDs :
              (Credential(last'.md, hmacSampleSecret, now).ok
                  /\ u = Credential(last'.md, hmacSampleSecret, now).user_id)
              => /\ (last'.op[3] = "SaveTextData")
                       => /\ last'.code = "OK"
                          /\ last'.resp.id \notin AllRowIDs
                          /\ text_data' = text_data \cup {[id |-> last'.resp.id, user_id |-> u,
                                                            text |-> last'.req.text]}
                          /\ Cardinality(text_data') = Cardinality(text_data) + 1
                 /\ (last'.op[3] = "GetVaultItems")
                       => /\ last'.code = "OK"
                          /\ {r.id : r \in last'.resp.items.textData} = RowIDs("text", u)
                 /\ ( /\ last'.op[3] = "DeleteVaultItem"
                      /\ last'.req.type = "text"
                      /\ last'.req.id \in RowIDs("text", u) )
                       => /\ last'.code = "OK"
                          /\ last'.req.id \notin (RowIDs("text", u))'
      ]_vars

\* C31 witness: a SaveTextData carrying a token that validates was refused and
\* stored nothing.
C31_Witness ==
    /\ last.op[3] = "SaveTextData"
    /\ Credential(last.md, hmacSampleSecret, now).ok
    /\ last.handlerRan
    /\ last.code # "OK"
    /\ ~last.fault
    /\ text_data = {}

Count(trace, ev) == Cardinality({i \in DOMAIN trace : trace[i].ev = ev})

\* What the auth interceptor decides for the call the chain served.
ChainGate ==
    IF chain.via = "unary"
    THEN AuthInterceptor(chain.method, chain.md, hmacSampleSecret, chain.at)
    ELSE StreamAuthInterceptor(chain.method, chain.md, hmacSampleSecret, chain.at)

\* C32: the chain runs its interceptors in list order with the handler last, each
\* once per call: with logging listed before auth every call leaves one request
\* log entry first and one response log entry last, also when auth rejects it; the
\* auth decision is taken once, between them; a call auth rejects never reaches
\* the handler and its response entry carries the rejection; a call auth accepts
\* reaches the handler once.
C32_ChainInListOrder ==
    chain.via # "none"
        => LET n == Len(chain.trace)
               inner == IF chain.interceptors[1] = "logging"
                        THEN SubSeq(chain.trace, 2, n - 1) ELSE chain.trace
           IN  /\ Count(chain.trace, "auth") = 1
               /\ Count(chain.trace, "handler") <= 1
               /\ chain.interceptors[1] = "logging"
                     => /\ Count(chain.trace, "request") = 1
                        /\ Count(chain.trace, "response") = 1
                        /\ chain.trace[1].ev = "request"
                        /\ chain.trace[n] = Event("response", chain.code)
               /\ inner[1].ev = "auth"
               /\ IF ChainGate.next
                  THEN Len(inner) = 2 /\ inner[2].ev = "handler" /\ chain.code = inner[2].code
                  ELSE Len(inner) = 1 /\ chain.code = "Unauthenticated"
                          /\ inner[1].code = "Unauthenticated"

\* C32 witness: with logging before auth, a vault call without metadata was
\* rejected by auth and left a request and a response log entry and no handler run.
C32_Witness ==
    /\ chain.via = "unary"
    /\ chain.interceptors = <<"logging", "auth">>
    /\ IsVaultCall(chain.method)
    /\ chain.md = NoMetadata
    /\ chain.trace = <<Event("request", ""), Event("auth", "Unauthenticated"),
                       Event("response", "Unauthenticated")>>

\* C35: a failed client Login (an empty argument, an RPC error, or an empty token
\* in the response) leaves the stored token as it was and starts no assignment of
\* it: an unauthenticated Client stays unauthenticated, a Client holding a token
\* keeps exactly that token.
C35_FailedLoginKeepsToken ==
    [][ ( /\ client'.call # client.call
          /\ client'.call.op = "Login"
          /\ client'.call.err # "" )
        => /\ client'.call.err \in {"login and password cannot be empty", "login failed",
                                    "login failed: received empty token"}
           /\ client'.token = client.token
           /\ client'.pc = client.pc
           /\ client'.pending = client.pending
           /\ IsAuthenticated(client'.token) = IsAuthenticated(client.token)
      ]_vars

\* C35 witness: a Login failed with an RPC error on a Client that holds the token
\* of an earlier Login, and no assignment of the token is under way.
C35_Witness ==
    /\ client.call.op = "Login"
    /\ client.call.err = "login failed"
    /\ client.token \in client.granted
    /\ \A g \in Goroutines : client.pc[g] = "idle"

\* C34: Meta is isolated per user like the items it annotates: a SaveMeta by user
\* B, also one that names the id of an item owned by another user A, leaves the
\* Meta part of A's GetVaultItems result as it was, so every Meta entry A is
\* returned was saved by A.
C34_MetaIsolatedPerUser ==
    [][ (Serves /\ last'.op[3] = "SaveMeta" /\ last'.ctxUser # NoUser)
        => \A a \in UserIDs :
              a # last'.ctxUser => (View(a))'.meta = View(a).meta
      ]_vars

\* C34 witness: a SaveMeta of one user returned OK and the row it stored is in the
\* GetVaultItems result of another user, who owns the item the row names.
C34_Witness ==
    /\ last.op[3] = "SaveMeta"
    /\ last.code = "OK"
    /\ \E a \in UserIDs \ {last.ctxUser} :
          \E k \in DOMAIN View(a).meta :
             \E i \in 1..Len(last.req.meta) :
                /\ View(a).meta[k].item_id = last.req.meta[i].item_id
                /\ last.req.meta[i].item_id \in ReturnedIDs(View(a))

\* C40: the main screen's cursor indexes a displayed item after every key, search
\* input and reload: 0 <= cursor < len(items) where items are displayed, 0 where
\* none is.
C40_CursorIndexesItem ==
    tui.state # "none"
        => LET ms == tui.mainScreen
           IN  IF Len(ms.items) > 0 THEN 0 <= ms.cursor /\ ms.cursor < Len(ms.items)
               ELSE ms.cursor = 0

\* C40 witness: on the main screen the cursor was moved down to the last of the
\* loaded items and a search query that keeps every item was typed.
C40_Witness ==
    /\ tui.state = StateMain
    /\ tui.mainScreen.searchMode
    /\ tui.mainScreen.searchQuery # <<>>
    /\ Len(tui.mainScreen.items) = MaxRows
    /\ tui.mainScreen.cursor = Len(tui.mainScreen.items) - 1

\* C39: the vault screens are reached only after a successful login: every step
\* leaves StateMain, StateAddItem and StateViewItem to an authenticated App, a step
\* out of StateLogin is the LoginSuccessMsg of a performLogin that ran, and at
\* StateLogin the messages of a failed login and of a registration, successful
\* or failed, leave the state at StateLogin.
C39_VaultScreensAfterLogin ==
    [][ /\ tui'.state \in {StateMain, StateAddItem, StateViewItem} => tui'.isAuthenticated
        /\ (tui.state = StateLogin /\ tui'.state # StateLogin)
              => /\ \E c \in tui.cmds \ tui'.cmds : c.kind = "performLogin"
                 /\ tui' = [AppUpdate(tui, Plain("LoginSuccessMsg"), NoInput).s
                               EXCEPT !.cmds = tui'.cmds]
        /\ tui.state = StateLogin
              => \A kind \in {"LoginErrorMsg", "RegisterSuccessMsg", "RegisterErrorMsg"} :
                    AppUpdate(tui, Plain(kind), NoInput).s.state = StateLogin
      ]_vars

\* C39 witness: after a login succeeded the menu of the add screen is open for
\* an authenticated App.
C39_Witness ==
    /\ tui.state = StateAddItem
    /\ tui.isAuthenticated
    /\ tui.addItemScreen.showMenu

\* C38: while the main screen is in search mode a key that types a character only
\* edits the query: Update returns no command (no quit, no add, delete or
\* refresh) and changes nothing but the query and the list filtered by it.
C38_SearchKeysOnlyEditQuery ==
    (Running /\ tui.state = StateMain /\ tui.mainScreen.searchMode)
        => \A key \in {k \in Keys : Runes(k) # <<>>} :
              LET r == AppUpdate(tui, KeyMsg(key), NoInput)
              IN  /\ r.cmd = NoCmd
                  /\ r.s = [tui EXCEPT !.mainScreen =
                               filterItems([tui.mainScreen EXCEPT !.searchQuery =
                                               tui.mainScreen.searchQuery \o Runes(key)])]

\* C38 witness: the program has quit with the main screen in search mode and a
\* query typed.
C38_Witness ==
    /\ tui.quit
    /\ tui.state = StateMain
    /\ tui.mainScreen.searchMode
    /\ tui.mainScreen.searchQuery # <<>>

\* The loaded vault items that match the query, case-insensitively; all of them
\* for the empty query.
MatchingLoaded(ms) == Filtered(convertItemsForDisplay(ms).items, ToLower(ms.searchQuery))

\* C37: real-time search: a character typed or deleted in search mode leaves on
\* display exactly the loaded vault items whose title or subtitle contains the
\* new query, case-insensitively, and every loaded item when the query is empty.
C37_ListMatchesQuery ==
    [][ (/\ tui.state = StateMain /\ tui'.state = StateMain
         /\ tui.mainScreen.searchMode /\ tui'.mainScreen.searchMode
         /\ tui'.mainScreen.searchQuery # tui.mainScreen.searchQuery)
        => tui'.mainScreen.items = MatchingLoaded(tui'.mainScreen)
      ]_vars

\* C37 witness: in search mode, on a query typed and shortened by a backspace, the
\* list is empty although a loaded item matches the query.
C37_Witness ==
    /\ tui.state = StateMain
    /\ tui.mainScreen.searchMode
    /\ Len(tui.mainScreen.searchQuery) = 1
    /\ tui.mainScreen.items = <<>>
    /\ MatchingLoaded(tui.mainScreen) # <<>>

\* C33: every delete request of the terminal client carries a type tag the vault
\* service dispatches on, and when the request has run and the client reports
\* "Item deleted successfully!" the item is stored no longer.
C33_DeleteTagsDispatched ==
    [][ \A c \in tui.cmds :
           c.kind = "performDeleteItem"
               => /\ c.msg.tag \in ItemTypes
                  /\ (c \notin tui'.cmds /\ tui'.message = ItemDeleted)
                        => c.msg.id \notin AllRowIDs'
      ]_vars

\* C33 witness: the client reports "Item deleted successfully!" for the text item
\* open in the item view, and the item is still stored.
C33_Witness ==
    /\ tui.state = StateMain
    /\ tui.message = ItemDeleted
    /\ tui.viewItemScreen.itemType = TypeTextData
    /\ tui.viewItemScreen.item \in {r.id : r \in text_data}

\* The second the message on display was set at: setMessage started the timer
\* that wakes last.
MessageSetAt ==
    (CHOOSE w \in {t.wake : t \in tui.timers} : \A t \in tui.timers : t.wake <= w) - MessageTTL

\* C36: a message set by setMessage is cleared by a timer only once it has been
\* shown for MessageTTL seconds, whatever timers of older messages are running,
\* and View never reads a.message while a timer is writing it.
C36_MessageShownThreeSeconds ==
    [][ /\ (/\ \E t \in tui.timers \ tui'.timers : t.pc = "writing"
            /\ tui.message # "")
              => tui.clock - MessageSetAt >= MessageTTL
        /\ ~tui'.raced
      ]_vars

\* C36 witness: the timer of an older message has cleared the message while the
\* timer of the newest message is still asleep and not yet due.
C36_Witness ==
    /\ tui.state = StateLogin
    /\ tui.message = ""
    /\ \E t \in tui.timers : t.pc = "sleeping" /\ t.wake > tui.clock
    /\ \A t \in tui.timers : t.pc = "sleeping"
    /\ ~tui.raced

====
